---- MODULE Spec2Model ----
(***************************************************************************)
(* Round lifecycle and guess tracking of the Practicando flashcard game.   *)
(*                                                                         *)
(* The browser side (FlashcardGame, Flashcard, the services/api client and *)
(* the Next.js proxy routes) is translated from the TypeScript sources.    *)
(* The FastAPI backend behind the proxy is not part of the sources; the    *)
(* Server* definitions model it from sections 4.3, 4.4, 5 and 6 of the     *)
(* specification.                                                          *)
(***************************************************************************)
EXTENDS Integers, Sequences, FiniteSets, TLC

\* ------------------------------------------------------------------ bounds
\* Rounds the backend ever stores.
MaxRounds == 2
\* Times the practice page is mounted (first load, then reloads or
\* navigation away and back).
MaxMounts == 2
\* types/flashcard.ts sets DEFAULT_NUM_QUESTIONS = 10 and
\* QUESTION_COUNT_OPTIONS = [5, 10, 20]; the model keeps the two roles (the
\* default count, and a supported count below it) at a checkable scale.
DEFAULT_NUM_QUESTIONS == 2
QUESTION_COUNT_OPTIONS == {DEFAULT_NUM_QUESTIONS - 1, DEFAULT_NUM_QUESTIONS}
\* Later requests the backend may handle before an earlier one.
MaxOvertake == 1
\* Learner actions taken while requests or responses are still in flight:
\* how far the page runs ahead of the network.
MaxAhead == 2

\* ------------------------------------------------------------------ values
\* JSON null / JS undefined.  Strings are sequences of one-character strings,
\* so the marker below is no string.
Null == <<"null">>
\* An absent optional string-valued field (verb_class).
Undefined == "undefined"
NoRound == [id |-> 0]
NoFilters == [none |-> TRUE]
NoGuess == <<0, 0>>

\* String.prototype.toLowerCase over the model's alphabet, a string being a
\* sequence of UTF-16 code units.  DottedI stands for the capital I with a dot
\* above (U+0130), the one code unit whose lower case is two: an i and the
\* combining dot above (U+0307), which DotAbove stands for.
DottedI == "I"
DotAbove == "."
LowerChar(c) == IF c = "A" THEN "a" ELSE IF c = "B" THEN "b" ELSE c
LowerUnits(c) == IF c = DottedI THEN <<"i", DotAbove>> ELSE <<LowerChar(c)>>
RECURSIVE ToLowerCase(_)
ToLowerCase(s) ==
    IF s = <<>> THEN <<>> ELSE LowerUnits(Head(s)) \o ToLowerCase(Tail(s))

\* String.prototype.trim: strips leading and trailing blanks.
RECURSIVE TrimLeft(_)
TrimLeft(s) == IF s # <<>> /\ Head(s) = " " THEN TrimLeft(Tail(s)) ELSE s
RECURSIVE TrimRight(_)
TrimRight(s) ==
    IF s # <<>> /\ s[Len(s)] = " " THEN TrimRight(SubSeq(s, 1, Len(s) - 1)) ELSE s
Trim(s) == TrimRight(TrimLeft(s))

\* Stored correct forms the conjugation source yields, and what a learner types.
Forms == {<<"a">>}
Inputs == {<<"a">>, <<"b">>, <<" ">>}

\* Filter sets the learner can put into the filter panel.
DefaultFilters ==
    [pronouns |-> {"yo", "tu"}, tenses |-> {"present"}, moods |-> {"indicative"},
     num_questions |-> DEFAULT_NUM_QUESTIONS, verb_class |-> Undefined,
     allow_retry |-> FALSE]
FilterChoices ==
    {DefaultFilters,
     [DefaultFilters EXCEPT !.allow_retry = TRUE, !.verb_class = "top10"],
     [DefaultFilters EXCEPT !.pronouns = {}]}

VerbClasses == {"top10", "top20", "top50", "top100", "top200", "top500"}

VARIABLES
    \* backend (persistent store)
    rounds,          \* sequence of Round rows; a round's id is its index
    sguesses,        \* sguesses[r]: the ordered Guess rows of round r
    \* transport
    reqs,            \* requests in flight to the backend, in the order sent
    resps,           \* responses in flight to an awaiting handler
    \* FlashcardGame
    mount,           \* which mount of the practice page is live
    gamePhase,
    roundState,
    answerState,
    filters,
    pendingFilters,
    showFilterWarning,
    completeTimer,   \* a setTimeout(() => setGamePhase('round_complete')) is pending
    \* Flashcard
    card,            \* [showAnswer, hasRetried]
    nextTimers,      \* pending setTimeout(() => onNext()) of Flashcard.handleNext
    \* RootLayout, Navigation and lib/appState
    nav,             \* [pathname, showWarning, pendingRoute, appState, global]
    \* learner
    altFilters,      \* the filter set the learner switches to in this
                     \* session (the default one: the filters are left alone)
    ahead,           \* learner actions since nothing was pending
    \* history
    retryGid,        \* id of the Guess a retry was granted for last (NoGuess: none)
    fault            \* the call that failed in this session ("none": none has)

vars == <<rounds, sguesses, reqs, resps, mount, gamePhase, roundState,
          answerState, filters, pendingFilters, showFilterWarning, completeTimer,
          card, nextTimers, nav, altFilters, ahead, retryGid, fault>>

server == <<rounds, sguesses>>
client == <<mount, gamePhase, roundState, answerState, filters, pendingFilters,
            showFilterWarning, completeTimer, card, nextTimers, nav>>

\* ----------------------------------------------------------------- backend
\* (modelled from the specification: the FastAPI service is not in the sources)

RoundIds == 1..Len(rounds)
ActiveIds == {r \in RoundIds : rounds[r].status = "active"}
CompletedIds == {r \in RoundIds : rounds[r].status = "completed"}

\* 4.1 Filter Validator.
ValidateFilters(body) ==
    /\ body.pronouns # {}
    /\ body.tenses # {}
    /\ body.moods # {}
    /\ body.num_questions \in QUESTION_COUNT_OPTIONS
    /\ body.verb_class \in VerbClasses

\* 3. Round, as persisted at creation; allowRetry defaults to false when the
\* request does not carry it (4.1).
NewRound(id, body) ==
    [id |-> id, status |-> "active",
     pronouns |-> body.pronouns, tenses |-> body.tenses, moods |-> body.moods,
     num_questions |-> body.num_questions, verb_class |-> body.verb_class,
     allow_retry |-> IF "allow_retry" \in DOMAIN body THEN body.allow_retry ELSE FALSE,
     num_correct_answers |-> 0, ended_at |-> 0]

\* 4.2 Question Sampler: every batch of exactly n guess placeholders.
SampleBatches(id, n) ==
    {[i \in 1..n |-> [id |-> <<id, i>>, correct_answer |-> f[i],
                      user_answer |-> Null, is_correct |-> "null",
                      skipped |-> FALSE]] : f \in [1..n -> Forms]}

CountCorrect(gs) == Cardinality({i \in 1..Len(gs) : gs[i].is_correct = "true"})

\* Finalized that looks at the answer only: a skipped Guess passes for open.
FinalizedByAnswerOnly(g) == g.user_answer # Null

\* 4.3: a Guess is final once answered or skipped.
Finalized(g) == g.user_answer # Null \/ g.skipped

\* completeRound that stamps and counts again whatever the round's status.
CompletedRowAgain(r) ==
    [rounds[r] EXCEPT !.status = "completed",
                      !.ended_at = Cardinality(CompletedIds) + 1,
                      !.num_correct_answers = CountCorrect(sguesses[r])]

\* 4.4 completeRound on the store; a no-op on a completed round.
CompletedRow(r) ==
    IF rounds[r].status = "completed" THEN rounds[r]
    ELSE [rounds[r] EXCEPT !.status = "completed",
                           !.ended_at = Cardinality(CompletedIds) + 1,
                           !.num_correct_answers = CountCorrect(sguesses[r])]

\* ActiveRoundExists without the storage-level constraint: a creation that saw
\* no active round is let through whatever has been inserted since.
ActiveRoundExistsUnchecked == FALSE

\* 4.4 / 5: the store admits at most one active Round; the check and the insert
\* of createRound are one step under that constraint.
ActiveRoundExists == ActiveIds # {}

\* The network hands the backend any request in flight that has not yet
\* been overtaken MaxOvertake times; the requests sent before it count one
\* more overtaking.
Deliverable(i) ==
    /\ i \in 1..Len(reqs)
    /\ \A j \in 1..(i - 1) : reqs[j].late < MaxOvertake
Delivered(i) ==
    [j \in 1..(Len(reqs) - 1) |->
        IF j < i THEN [reqs[j] EXCEPT !.late = @ + 1] ELSE reqs[j + 1]]

\* What a response to an awaited call carries back to its handler.
Response(m, status, round, guesses) ==
    [op |-> m.op, mount |-> m.mount, src |-> m.src, flt |-> m.flt,
     status |-> status, round |-> round, guesses |-> guesses,
     completed_round |-> NoRound]

\* POST /api/rounds
ServerCreateRound(m) ==
    /\ m.op = "create"
    /\ IF ~ValidateFilters(m.body)
       THEN /\ UNCHANGED server
            /\ resps' = resps \cup {Response(m, 400, NoRound, <<>>)}
       ELSE IF ActiveRoundExists
       THEN /\ UNCHANGED server
            /\ resps' = resps \cup {Response(m, 409, NoRound, <<>>)}
       ELSE /\ Len(rounds) < MaxRounds
            /\ \E batch \in SampleBatches(Len(rounds) + 1, m.body.num_questions) :
                 /\ rounds' = Append(rounds, NewRound(Len(rounds) + 1, m.body))
                 /\ sguesses' = Append(sguesses, batch)
                 /\ resps' = resps \cup
                        {Response(m, 200, NewRound(Len(rounds) + 1, m.body), batch)}
    /\ UNCHANGED <<client, altFilters, retryGid, fault>>

\* GET /api/rounds/active
ServerGetActiveRound(m) ==
    /\ m.op = "getActive"
    /\ IF ActiveIds = {}
       THEN /\ resps' = resps \cup {Response(m, 404, NoRound, <<>>)}
       ELSE /\ \E r \in ActiveIds :
                 resps' = resps \cup {Response(m, 200, rounds[r], sguesses[r])}
    /\ UNCHANGED <<server, client, altFilters, retryGid, fault>>

\* PUT /api/rounds/{id}/complete
ServerCompleteRound(m) ==
    /\ m.op = "complete"
    /\ IF m.id \in RoundIds
       THEN /\ rounds' = [rounds EXCEPT ![m.id] = CompletedRow(m.id)]
       ELSE /\ UNCHANGED rounds
    /\ UNCHANGED <<sguesses, resps, client, altFilters, retryGid, fault>>

\* POST /api/rounds/{id}/transition: completeRound, then createRound.
ServerTransitionRound(m) ==
    /\ m.op = "transition"
    /\ IF m.id \notin RoundIds
       THEN /\ UNCHANGED server
            /\ resps' = resps \cup {Response(m, 404, NoRound, <<>>)}
       ELSE IF ~ValidateFilters(m.body)
       THEN /\ UNCHANGED server
            /\ resps' = resps \cup {Response(m, 400, NoRound, <<>>)}
       ELSE IF ActiveIds \ {m.id} # {}
       THEN /\ rounds' = [rounds EXCEPT ![m.id] = CompletedRow(m.id)]
            /\ UNCHANGED sguesses
            /\ resps' = resps \cup {Response(m, 409, NoRound, <<>>)}
       ELSE /\ Len(rounds) < MaxRounds
            /\ \E batch \in SampleBatches(Len(rounds) + 1, m.body.num_questions) :
                 /\ rounds' = Append([rounds EXCEPT ![m.id] = CompletedRow(m.id)],
                                     NewRound(Len(rounds) + 1, m.body))
                 /\ sguesses' = Append(sguesses, batch)
                 /\ resps' = resps \cup
                        {[Response(m, 200, NewRound(Len(rounds) + 1, m.body), batch)
                            EXCEPT !.completed_round = CompletedRow(m.id)]}
    /\ UNCHANGED <<client, altFilters, retryGid, fault>>

\* PUT /api/rounds/guesses/{id}: the first update of a Guess finalizes it, a
\* later one is rejected and changes nothing (5).
ServerSubmitGuess(m) ==
    /\ m.op = "guess"
    /\ LET r == m.gid[1]
           i == m.gid[2]
       IN IF Finalized(sguesses[r][i])
          THEN /\ UNCHANGED sguesses
          ELSE /\ sguesses' = [sguesses EXCEPT ![r][i].user_answer = m.user_answer,
                                               ![r][i].is_correct = m.is_correct]
    /\ UNCHANGED <<rounds, resps, client, altFilters, retryGid, fault>>

\* skip(guessId) (4.3)
ServerSkipGuess(m) ==
    /\ m.op = "skip"
    /\ LET r == m.gid[1]
           i == m.gid[2]
       IN IF Finalized(sguesses[r][i])
          THEN /\ UNCHANGED sguesses
          ELSE /\ sguesses' = [sguesses EXCEPT ![r][i].skipped = TRUE,
                                               ![r][i].user_answer = Null,
                                               ![r][i].is_correct = "false"]
    /\ UNCHANGED <<rounds, resps, client, altFilters, retryGid, fault>>

\* --------------------------------------------------------------- transport
\* fetch: a request joins those in flight.
Send(S, m) == Append(S, m)


\* response.ok with 409 Conflict let through as a success.
ResponseOkOrConflict(status) == (status >= 200 /\ status <= 299) \/ status = 409

\* fetch's response.ok
ResponseOk(status) == status >= 200 /\ status <= 299

\* ------------------------------------------------------------ services/api
\* filters.num_questions || DEFAULT_NUM_QUESTIONS
NumQuestionsOrDefault(f) ==
    IF f.num_questions = 0 THEN DEFAULT_NUM_QUESTIONS ELSE f.num_questions

\* The JSON body createRound and transitionRound build from a Filters value.
RequestBody(f) ==
    [pronouns |-> f.pronouns, tenses |-> f.tenses, moods |-> f.moods,
     num_questions |-> NumQuestionsOrDefault(f), verb_class |-> "top20"]

\* createRound / transitionRound / getActiveRound: return the parsed response
\* when response.ok, throw otherwise.
ApiOutcome(status) == IF ResponseOk(status) THEN "return" ELSE "throw"

GetActiveRoundReq(mnt, f) ==
    [op |-> "getActive", mount |-> mnt, src |-> "init", flt |-> f, late |-> 0]
CreateRoundReq(mnt, src, f) ==
    [op |-> "create", mount |-> mnt, src |-> src, flt |-> f,
     body |-> RequestBody(f), late |-> 0]
TransitionRoundReq(mnt, id, f) ==
    [op |-> "transition", mount |-> mnt, src |-> "confirm", id |-> id, flt |-> f,
     body |-> RequestBody(f), late |-> 0]
CompleteRoundReq(id) == [op |-> "complete", id |-> id, late |-> 0]
SubmitGuessReq(gid, userAnswer, isCorrect) ==
    [op |-> "guess", gid |-> gid, user_answer |-> userAnswer,
     is_correct |-> IF isCorrect THEN "true" ELSE "false", late |-> 0]
SubmitSkipReq(gid) == [op |-> "skip", gid |-> gid, late |-> 0]

\* ----------------------------------------------------------- FlashcardGame
InitRoundState ==
    [currentRound |-> NoRound, guesses |-> <<>>, currentGuessIndex |-> 0,
     isComplete |-> FALSE, score |-> [correct |-> 0, total |-> 0]]
InitCard == [showAnswer |-> FALSE, hasRetried |-> FALSE]

\* lib/appState's globalAppState as the module starts with it; the round id 0
\* stands for null.
InitAppState ==
    [currentRoundId |-> 0, currentQuestionIndex |-> 0, hasActiveRound |-> FALSE]
\* Navigation's state on the practice page, with RootLayout's copy of the app
\* state and the global one.
NoRoute == "null"
InitNav ==
    [pathname |-> "/practice", showWarning |-> FALSE, pendingRoute |-> NoRoute,
     appState |-> InitAppState, global |-> InitAppState]

\* filters.pronouns?.length && filters.tenses?.length && filters.moods?.length
FiltersUsable(f) == f.pronouns # {} /\ f.tenses # {} /\ f.moods # {}

\* findCurrentQuestionIndex (0-based; findIndex gives -1 when nothing matches)
FindCurrentQuestionIndex(guesses) ==
    LET unanswered == {i \in 1..Len(guesses) : guesses[i].user_answer = Null}
    IN IF unanswered = {} THEN Len(guesses) - 1
       ELSE (CHOOSE i \in unanswered : \A j \in unanswered : i <= j) - 1

\* calculateScore
CalculateScore(guesses) ==
    LET answered == {i \in 1..Len(guesses) : guesses[i].user_answer # Null}
    IN [correct |-> Cardinality({i \in answered : guesses[i].is_correct = "true"}),
        total |-> Cardinality(answered)]

IndexInRange(rs) ==
    rs.currentGuessIndex >= 0 /\ rs.currentGuessIndex < Len(rs.guesses)
CurrentGuess(rs) == rs.guesses[rs.currentGuessIndex + 1]

\* The render branch that shows the Flashcard, the filter panel and the
\* filter warning modal: none of the loading, error, filter_selection and
\* round_complete screens, a round and at least one guess.
CardShown(phase, rs) ==
    /\ phase = "playing"
    /\ rs.currentRound # NoRound
    /\ Len(rs.guesses) > 0
    /\ IndexInRange(rs)

\* Flashcard state after a render: the component is keyed by the guess id and
\* its reset effect runs when the id changes, so a card for another guess (or
\* a newly shown card) starts from the guess; otherwise the state is kept.
CardAfter(phase, rs) ==
    IF ~CardShown(phase, rs) THEN InitCard
    ELSE IF CardShown(gamePhase, roundState)
            /\ CurrentGuess(roundState).id = CurrentGuess(rs).id
    THEN card
    ELSE [showAnswer |-> CurrentGuess(rs).user_answer # Null,
          hasRetried |-> FALSE]

\* A learner who keeps the default filters runs up to MaxAhead actions ahead of
\* the network; one who selects other filters, one action fewer.
AheadLimit == IF altFilters = DefaultFilters THEN MaxAhead ELSE MaxAhead - 1
Paced == ahead < AheadLimit

\* The run-ahead count after a step that is (k = 1) or is not (k = 0) a learner
\* action: it starts over whenever no request, response or timer is pending.
Idle(rq, rp, timer) == Len(rq) = 0 /\ rp = {} /\ ~timer
Lag(k) == ahead' = IF Idle(reqs', resps', completeTimer') THEN 0 ELSE ahead + k

Init ==
    /\ rounds = <<>>
    /\ sguesses = <<>>
    /\ reqs = <<GetActiveRoundReq(1, DefaultFilters)>>
    /\ resps = {}
    /\ mount = 1
    /\ gamePhase = "loading"
    /\ roundState = InitRoundState
    /\ answerState = "unanswered"
    /\ filters = DefaultFilters
    /\ pendingFilters = NoFilters
    /\ showFilterWarning = FALSE
    /\ completeTimer = FALSE
    /\ card = InitCard
    /\ retryGid = NoGuess
    /\ fault = "none"
    /\ ahead = 0
    /\ nextTimers = 0
    /\ nav = InitNav
    /\ altFilters \in FilterChoices

\* The practice page is mounted again (a reload, or navigation away and
\* back): every useState starts over and the mount effect runs initializeApp.
\* Handlers of the previous mount that are awaiting a response keep running;
\* their state updates no longer have an effect.
Remount ==
    /\ Paced
    /\ mount < MaxMounts
    /\ mount' = mount + 1
    /\ gamePhase' = "loading"
    /\ roundState' = InitRoundState
    /\ answerState' = "unanswered"
    /\ filters' = DefaultFilters
    /\ pendingFilters' = NoFilters
    /\ showFilterWarning' = FALSE
    /\ completeTimer' = FALSE
    /\ card' = InitCard
    /\ nextTimers' = 0
    /\ reqs' = Send(reqs, GetActiveRoundReq(mount + 1, DefaultFilters))
    /\ UNCHANGED <<server, resps, altFilters, retryGid, fault, nav>>
    /\ Lag(1)

\* The error screen's Try Again button: initializeApp up to its first await.
TryAgain ==
    /\ Paced
    /\ gamePhase = "error"
    /\ gamePhase' = "loading"
    /\ reqs' = Send(reqs, GetActiveRoundReq(mount, filters))
    /\ card' = CardAfter("loading", roundState)
    /\ UNCHANGED <<server, resps, mount, roundState, answerState, filters,
                   pendingFilters, showFilterWarning, completeTimer, altFilters, retryGid, fault,
                   nextTimers, nav>>
    /\ Lag(1)

\* initializeApp passing the current filters on whatever they are.
FiltersToUseAsGiven(f) == [f EXCEPT !.num_questions = NumQuestionsOrDefault(f)]

\* initializeApp's createRound argument once getActiveRound has thrown.
FiltersToUse(f) ==
    IF FiltersUsable(f)
    THEN [f EXCEPT !.num_questions = NumQuestionsOrDefault(f)]
    ELSE [DefaultFilters EXCEPT !.verb_class = Undefined, !.allow_retry = FALSE]

\* initializeApp after await getActiveRound().
InitializeAppActive(p) ==
    /\ p \in resps /\ p.op = "getActive"
    /\ resps' = resps \ {p}
    /\ IF ApiOutcome(p.status) = "return"
       THEN /\ UNCHANGED reqs
            /\ IF p.mount = mount
               THEN LET rs == [currentRound |-> p.round,
                               guesses |-> p.guesses,
                               currentGuessIndex |-> FindCurrentQuestionIndex(p.guesses),
                               isComplete |-> FALSE,
                               score |-> CalculateScore(p.guesses)]
                    IN /\ roundState' = rs
                       /\ gamePhase' = "playing"
                       /\ card' = CardAfter("playing", rs)
               ELSE UNCHANGED <<roundState, gamePhase, card>>
            /\ UNCHANGED filters
       ELSE /\ reqs' = Send(reqs, CreateRoundReq(p.mount, "init", FiltersToUse(p.flt)))
            /\ IF p.mount = mount /\ ~FiltersUsable(p.flt)
               THEN filters' = FiltersToUse(p.flt)
               ELSE UNCHANGED filters
            /\ UNCHANGED <<roundState, gamePhase, card>>
    /\ UNCHANGED <<server, mount, answerState, pendingFilters,
                   showFilterWarning, completeTimer, altFilters, retryGid, fault,
                   nextTimers, nav>>
    /\ Lag(0)

\* initializeApp and startNewRound after await createRound(...);
\* handleStartNewRound then resets the answer state.
CreateRoundDone(p) ==
    /\ p \in resps /\ p.op = "create"
    /\ resps' = resps \ {p}
    /\ IF p.mount # mount
       THEN UNCHANGED <<roundState, gamePhase, card, answerState>>
       ELSE /\ IF ApiOutcome(p.status) = "return"
               THEN LET rs == [currentRound |-> p.round, guesses |-> p.guesses,
                               currentGuessIndex |-> 0, isComplete |-> FALSE,
                               score |-> [correct |-> 0, total |-> 0]]
                    IN /\ roundState' = rs
                       /\ gamePhase' = "playing"
                       /\ card' = CardAfter("playing", rs)
               ELSE /\ gamePhase' = "error"
                    /\ card' = CardAfter("error", roundState)
                    /\ UNCHANGED roundState
            /\ answerState' = IF p.src = "again" THEN "unanswered" ELSE answerState
    /\ UNCHANGED <<server, reqs, mount, filters, pendingFilters,
                   showFilterWarning, completeTimer, altFilters, retryGid, fault,
                   nextTimers, nav>>
    /\ Lag(0)

\* FilterPanel's onFiltersChange = setFilters.
FiltersChange(f) ==
    /\ Paced
    /\ gamePhase = "filter_selection" \/ CardShown(gamePhase, roundState)
    /\ f # filters
    /\ filters' = f
    /\ UNCHANGED <<server, reqs, resps, mount, gamePhase, roundState,
                   answerState, pendingFilters, showFilterWarning, completeTimer,
                   card, altFilters, retryGid, fault, nextTimers, nav>>
    /\ Lag(1)

\* startNewRound up to its await: [phase, request sent or not].
StartNewRoundInvalid(f) == ~FiltersUsable(f)
StartNewRoundFilters(f) == [f EXCEPT !.num_questions = NumQuestionsOrDefault(f)]

\* The panel's Apply button is disabled while nothing can be applied.
ApplyNeverDisabled(f) == FALSE

\* disabled={filters.pronouns.length === 0 || filters.tenses.length === 0 ||
\*           filters.moods.length === 0}
ApplyDisabled(f) == f.pronouns = {} \/ f.tenses = {} \/ f.moods = {}

\* handleFiltersApply (the panel's Apply Filters / Start New Round button)
HandleFiltersApply ==
    /\ Paced
    /\ gamePhase = "filter_selection" \/ CardShown(gamePhase, roundState)
    /\ ~ApplyDisabled(filters)
    /\ IF roundState.currentRound # NoRound /\ ~roundState.isComplete
       THEN /\ pendingFilters' = filters
            /\ showFilterWarning' = TRUE
            /\ UNCHANGED <<gamePhase, reqs, card>>
       ELSE /\ IF StartNewRoundInvalid(filters)
               THEN /\ gamePhase' = "error"
                    /\ UNCHANGED reqs
               ELSE /\ gamePhase' = "loading"
                    /\ reqs' = Send(reqs, CreateRoundReq(mount, "apply",
                                                         StartNewRoundFilters(filters)))
            /\ card' = InitCard
            /\ UNCHANGED <<pendingFilters, showFilterWarning>>
    /\ UNCHANGED <<server, resps, mount, roundState, answerState, filters,
                   completeTimer, altFilters, retryGid, fault, nextTimers,
                   nav>>
    /\ Lag(1)

\* handleFilterWarningConfirm up to its await: the modal closes and, with
\* pending filters and a round, transitionRound is requested.
HandleFilterWarningConfirm ==
    /\ Paced
    /\ CardShown(gamePhase, roundState)
    /\ showFilterWarning
    /\ showFilterWarning' = FALSE
    /\ IF pendingFilters # NoFilters /\ roundState.currentRound # NoRound
       THEN /\ reqs' = Send(reqs, TransitionRoundReq(mount, roundState.currentRound.id,
                                                     pendingFilters))
            /\ UNCHANGED pendingFilters
       ELSE /\ pendingFilters' = NoFilters
            /\ UNCHANGED reqs
    /\ UNCHANGED <<server, resps, mount, gamePhase, roundState, answerState,
                   filters, completeTimer, card, altFilters, retryGid, fault,
                   nextTimers, nav>>
    /\ Lag(1)

\* The transition data merged into the previous round state: position and
\* score are carried over.
TransitionedRoundStateMerged(newRound, guesses) ==
    [roundState EXCEPT !.currentRound = newRound, !.guesses = guesses]

\* The round state handleFilterWarningConfirm sets from the transition data.
TransitionedRoundState(newRound, guesses) ==
    [currentRound |-> newRound, guesses |-> guesses, currentGuessIndex |-> 0,
     isComplete |-> FALSE, score |-> [correct |-> 0, total |-> 0]]

\* handleFilterWarningConfirm after await transitionRound(...)
TransitionRoundDone(p) ==
    /\ p \in resps /\ p.op = "transition"
    /\ resps' = resps \ {p}
    /\ IF p.mount # mount
       THEN UNCHANGED <<roundState, gamePhase, card, pendingFilters>>
       ELSE /\ IF ApiOutcome(p.status) = "return"
               THEN LET rs == TransitionedRoundState(p.round, p.guesses)
                    IN /\ roundState' = rs
                       /\ gamePhase' = "playing"
                       /\ card' = CardAfter("playing", rs)
               ELSE /\ gamePhase' = "error"
                    /\ card' = CardAfter("error", roundState)
                    /\ UNCHANGED roundState
            /\ pendingFilters' = NoFilters
    /\ UNCHANGED <<server, reqs, mount, answerState, filters,
                   showFilterWarning, completeTimer, altFilters, retryGid, fault,
                   nextTimers, nav>>
    /\ Lag(0)

\* handleFilterWarningCancel
HandleFilterWarningCancel ==
    /\ Paced
    /\ CardShown(gamePhase, roundState)
    /\ showFilterWarning
    /\ showFilterWarning' = FALSE
    /\ pendingFilters' = NoFilters
    /\ UNCHANGED <<server, reqs, resps, mount, gamePhase, roundState,
                   answerState, filters, completeTimer, card, altFilters, retryGid, fault,
                   nextTimers, nav>>
    /\ Lag(1)

\* ---------------------------------------------------------------- Flashcard
\* handleSubmit's verdict on the typed text.
IsCorrect(userAnswer, guess) ==
    Trim(ToLowerCase(userAnswer)) = ToLowerCase(guess.correct_answer)

\* handleSubmit without its retry branch.
SubmitBranchNoRetry(userAnswer, guess, allowRetry, hasRetried) ==
    IF Trim(userAnswer) = <<>> THEN "ignore" ELSE "finalize"

\* handleSubmit without its test for an empty input.
SubmitBranchTakesBlank(userAnswer, guess, allowRetry, hasRetried) ==
    IF ~IsCorrect(userAnswer, guess) /\ allowRetry /\ ~hasRetried THEN "retry"
    ELSE "finalize"

\* handleSubmit's branch: "ignore" (blank input), "retry" or "finalize".
SubmitBranch(userAnswer, guess, allowRetry, hasRetried) ==
    IF Trim(userAnswer) = <<>> THEN "ignore"
    ELSE IF ~IsCorrect(userAnswer, guess) /\ allowRetry /\ ~hasRetried THEN "retry"
    ELSE "finalize"

\* handleAnswer that moves the answered Guess to the end of the list.
HandleAnswerStateMovesGuess(rs, correct, userAnswer) ==
    LET k == rs.currentGuessIndex + 1
        answered == [rs.guesses[k] EXCEPT
                        !.user_answer = userAnswer,
                        !.is_correct = IF correct THEN "true" ELSE "false"]
        others == [j \in 1..(Len(rs.guesses) - 1) |->
                      IF j < k THEN rs.guesses[j] ELSE rs.guesses[j + 1]]
        updatedGuesses == Append(others, answered)
    IN [rs EXCEPT !.guesses = updatedGuesses,
                  !.score = CalculateScore(updatedGuesses)]

\* handleAnswer that leaves the round state for the update's answer to set.
HandleAnswerStateDeferred(rs, correct, userAnswer) == rs

\* handleAnswer's new round state.
HandleAnswerState(rs, correct, userAnswer) ==
    LET updatedGuesses ==
            [rs.guesses EXCEPT
                ![rs.currentGuessIndex + 1].user_answer = userAnswer,
                ![rs.currentGuessIndex + 1].is_correct =
                    IF correct THEN "true" ELSE "false"]
    IN [rs EXCEPT !.guesses = updatedGuesses,
                  !.score = CalculateScore(updatedGuesses)]

\* Flashcard.handleSubmit, with FlashcardGame.handleAnswer as its onAnswer;
\* allowRetry is the prop !!filters.allow_retry.
HandleSubmit(userAnswer) ==
    /\ Paced
    /\ CardShown(gamePhase, roundState)
    /\ ~card.showAnswer
    /\ LET guess == CurrentGuess(roundState)
           branch == SubmitBranch(userAnswer, guess, filters.allow_retry,
                                  card.hasRetried)
           correct == IsCorrect(userAnswer, guess)
       IN CASE branch = "ignore" ->
                    UNCHANGED <<card, answerState, roundState, reqs, retryGid>>
               [] branch = "retry" ->
                    /\ card' = [card EXCEPT !.hasRetried = TRUE]
                    /\ retryGid' = guess.id
                    /\ UNCHANGED <<answerState, roundState, reqs>>
               [] branch = "finalize" ->
                    /\ card' = [card EXCEPT !.showAnswer = TRUE]
                    /\ answerState' = IF correct THEN "correct" ELSE "incorrect"
                    /\ roundState' = HandleAnswerState(roundState, correct, userAnswer)
                    /\ reqs' = Send(reqs, SubmitGuessReq(guess.id, userAnswer, correct))
                    /\ retryGid' = IF retryGid = guess.id THEN NoGuess ELSE retryGid
    /\ UNCHANGED <<server, resps, mount, gamePhase, filters, pendingFilters,
                   showFilterWarning, completeTimer, altFilters, fault,
                   nextTimers, nav>>
    /\ Lag(1)

\* handleNext that clears the answer of the card it leaves.
HandleNextStateForgets(rs) ==
    LET k == rs.currentGuessIndex + 1
        gs == [rs.guesses EXCEPT ![k].user_answer = Null, ![k].is_correct = "null"]
    IN IF k >= Len(rs.guesses)
       THEN [rs EXCEPT !.guesses = gs, !.currentGuessIndex = Len(rs.guesses) - 1,
                       !.isComplete = TRUE]
       ELSE [rs EXCEPT !.guesses = gs, !.currentGuessIndex = k]

\* handleNext that always moves on by one.
HandleNextStateUnclamped(rs) ==
    IF rs.currentGuessIndex + 1 >= Len(rs.guesses)
    THEN [rs EXCEPT !.currentGuessIndex = rs.currentGuessIndex + 1,
                    !.isComplete = TRUE]
    ELSE [rs EXCEPT !.currentGuessIndex = rs.currentGuessIndex + 1]

\* handleNext that stays on the card it is on.
HandleNextStateStays(rs) == rs

\* FlashcardGame.handleNext's new round state.
HandleNextState(rs) ==
    IF rs.currentGuessIndex + 1 >= Len(rs.guesses)
    THEN [rs EXCEPT !.currentGuessIndex = Len(rs.guesses) - 1, !.isComplete = TRUE]
    ELSE [rs EXCEPT !.currentGuessIndex = rs.currentGuessIndex + 1]

\* The Next Card / Finish Round button (or 'n', ArrowRight) of a revealed card,
\* pressed once: Flashcard.handleNext and, when its 300 ms timer fires with
\* nothing done in between, its onNext, FlashcardGame.handleNext.
HandleNext ==
    /\ Paced
    /\ CardShown(gamePhase, roundState)
    /\ card.showAnswer
    /\ answerState' = "unanswered"
    /\ roundState' = HandleNextState(roundState)
    /\ IF roundState.currentGuessIndex + 1 >= Len(roundState.guesses)
       THEN /\ completeTimer' = TRUE
            /\ reqs' = Send(reqs, CompleteRoundReq(roundState.currentRound.id))
       ELSE UNCHANGED <<completeTimer, reqs>>
    /\ card' = CardAfter(gamePhase, HandleNextState(roundState))
    /\ UNCHANGED <<server, resps, mount, gamePhase, filters, pendingFilters,
                   showFilterWarning, altFilters, retryGid, fault, nextTimers,
                   nav>>
    /\ Lag(1)

\* onSkip's new round state.
OnSkipState(rs) ==
    IF rs.currentGuessIndex >= Len(rs.guesses) - 1
    THEN [rs EXCEPT !.isComplete = TRUE]
    ELSE [rs EXCEPT !.currentGuessIndex = rs.currentGuessIndex + 1]

\* The Skip button (or Escape) of a card whose answer is not revealed.
OnSkip ==
    /\ Paced
    /\ CardShown(gamePhase, roundState)
    /\ ~card.showAnswer
    /\ answerState' = "unanswered"
    /\ roundState' = OnSkipState(roundState)
    /\ LET isLast == roundState.currentGuessIndex >= Len(roundState.guesses) - 1
           skipSent == Send(reqs, SubmitSkipReq(CurrentGuess(roundState).id))
       IN IF isLast
          THEN /\ completeTimer' = TRUE
               /\ reqs' = Send(skipSent, CompleteRoundReq(roundState.currentRound.id))
          ELSE /\ reqs' = skipSent
               /\ UNCHANGED completeTimer
    /\ card' = CardAfter(gamePhase, OnSkipState(roundState))
    /\ retryGid' = IF retryGid = CurrentGuess(roundState).id THEN NoGuess ELSE retryGid
    /\ UNCHANGED <<server, resps, mount, gamePhase, filters, pendingFilters,
                   showFilterWarning, altFilters, fault, nextTimers, nav>>
    /\ Lag(1)

\* The 300 ms timer set when the last question is left.
RoundCompleteTimer ==
    /\ completeTimer
    /\ completeTimer' = FALSE
    /\ gamePhase' = "round_complete"
    /\ card' = CardAfter("round_complete", roundState)
    /\ UNCHANGED <<server, reqs, resps, mount, roundState, answerState,
                   filters, pendingFilters, showFilterWarning, altFilters, retryGid, fault,
                   nextTimers, nav>>
    /\ Lag(0)

\* ------------------------------------------------------------ RoundComplete
\* getLastUsedFilters
GetLastUsedFilters(round) ==
    [pronouns |-> round.pronouns, tenses |-> round.tenses, moods |-> round.moods,
     num_questions |-> IF round.num_questions = 0 THEN DEFAULT_NUM_QUESTIONS
                       ELSE round.num_questions,
     verb_class |-> Undefined, allow_retry |-> FALSE]

\* Play again: handleStartNewRound(getLastUsedFilters()) up to the await in
\* startNewRound.
PlayAgain ==
    /\ Paced
    /\ gamePhase = "round_complete" /\ roundState.currentRound # NoRound
    /\ LET f == GetLastUsedFilters(roundState.currentRound)
       IN IF StartNewRoundInvalid(f)
          THEN /\ gamePhase' = "error"
               /\ answerState' = "unanswered"
               /\ UNCHANGED reqs
          ELSE /\ gamePhase' = "loading"
               /\ reqs' = Send(reqs, CreateRoundReq(mount, "again",
                                                    StartNewRoundFilters(f)))
               /\ UNCHANGED answerState
    /\ UNCHANGED <<server, resps, mount, roundState, filters, pendingFilters,
                   showFilterWarning, completeTimer, card, altFilters, retryGid, fault,
                   nextTimers, nav>>
    /\ Lag(1)

\* Change it up: handleChangeSettings.
HandleChangeSettings ==
    /\ Paced
    /\ gamePhase = "round_complete" /\ roundState.currentRound # NoRound
    /\ gamePhase' = "filter_selection"
    /\ UNCHANGED <<server, reqs, resps, mount, roundState, answerState,
                   filters, pendingFilters, showFilterWarning, completeTimer, card,
                   altFilters, retryGid, fault, nextTimers, nav>>
    /\ Lag(1)

\* The backend handles the i-th request in flight.
Deliver(i, handled) ==
    /\ Deliverable(i)
    /\ handled
    /\ reqs' = Delivered(i)
    /\ Lag(0)

\* Failures are followed in the sessions of the learner who clears a filter
\* dimension, and one call fails in a session at most.
MayFail == ~FiltersUsable(altFilters) /\ fault = "none"

\* A failing transition that takes the completion of the old round back.
ServerTransitionRoundRollsBack(m) ==
    /\ m.op = "transition"
    /\ MayFail
    /\ m.id \in RoundIds
    /\ ValidateFilters(m.body)
    /\ resps' = resps \cup {Response(m, 500, NoRound, <<>>)}
    /\ fault' = "transitionAborted"
    /\ UNCHANGED <<server, client, altFilters, retryGid>>

\* The transition fails once the old round is completed and before the new
\* one is created (4.4): the completion stays, the call is answered 500.
ServerTransitionRoundFails(m) ==
    /\ m.op = "transition"
    /\ MayFail
    /\ m.id \in RoundIds
    /\ ValidateFilters(m.body)
    /\ rounds' = [rounds EXCEPT ![m.id] = CompletedRow(m.id)]
    /\ resps' = resps \cup {Response(m, 500, NoRound, <<>>)}
    /\ fault' = "transitionAborted"
    /\ UNCHANGED <<sguesses, client, altFilters, retryGid>>

\* The calls that fail this way.
FailingOps == {"getActive", "create", "transition", "guess", "skip", "complete"}

\* A call the page awaits (the others are fire-and-forget).
Awaited(m) == m.op \in {"create", "getActive", "transition"}

\* The i-th request in flight does not reach the backend (the backend is
\* unreachable, the route handler's fetch throws): the route handler's catch
\* block answers 500, which an awaited call throws on and a fire-and-forget
\* call logs.
RequestFails(i) ==
    /\ MayFail
    /\ Deliverable(i)
    /\ reqs[i].op \in FailingOps
    /\ reqs' = Delivered(i)
    /\ resps' = IF Awaited(reqs[i])
                THEN resps \cup {Response(reqs[i], 500, NoRound, <<>>)}
                ELSE resps
    /\ fault' = reqs[i].op
    /\ UNCHANGED <<server, client, altFilters, retryGid>>
    /\ Lag(0)

\* The backend and the network.
Backend ==
    \/ \E i \in 1..Len(reqs) : Deliver(i, ServerCreateRound(reqs[i]))
    \/ \E i \in 1..Len(reqs) : Deliver(i, ServerGetActiveRound(reqs[i]))
    \/ \E i \in 1..Len(reqs) : Deliver(i, ServerCompleteRound(reqs[i]))
    \/ \E i \in 1..Len(reqs) : Deliver(i, ServerTransitionRound(reqs[i]))
    \/ \E i \in 1..Len(reqs) : Deliver(i, ServerSubmitGuess(reqs[i]))
    \/ \E i \in 1..Len(reqs) : Deliver(i, ServerSkipGuess(reqs[i]))
    \/ \E i \in 1..Len(reqs) : Deliver(i, ServerTransitionRoundFails(reqs[i]))
    \/ \E i \in 1..Len(reqs) : RequestFails(i)

\* The page's continuations: awaited responses and timers.
Continuation ==
    \/ \E p \in resps : InitializeAppActive(p)
    \/ \E p \in resps : CreateRoundDone(p)
    \/ \E p \in resps : TransitionRoundDone(p)
    \/ RoundCompleteTimer

\* What the learner does.
Learner ==
    \/ Remount
    \/ TryAgain
    \/ \E f \in {DefaultFilters, altFilters} : FiltersChange(f)
    \/ HandleFiltersApply
    \/ HandleFilterWarningConfirm
    \/ HandleFilterWarningCancel
    \/ \E a \in Inputs : HandleSubmit(a)
    \/ HandleNext
    \/ OnSkip
    \/ PlayAgain
    \/ HandleChangeSettings

Next == Backend \/ Continuation \/ Learner

Spec == Init /\ [][Next]_vars

\* ------------------------------------------------------------------ claims
\* C1: whatever createRound, completeRound and transitionRound requests the
\* backend has handled, and in whatever order, at most one Round has status
\* active; this includes two createRound requests sent after each caller was
\* told there is no active round.
AtMostOneActiveRound == Cardinality(ActiveIds) <= 1

\* Two createRound requests, each sent after a 404 from getActiveRound, have
\* both been handled: one created the round, the other was refused.
TwoCreatesHandled ==
    \E p, q \in resps :
        /\ p.op = "create" /\ q.op = "create"
        /\ p.src = "init" /\ q.src = "init"
        /\ p.status = 200 /\ q.status = 409
        /\ Cardinality(ActiveIds) = 1

\* C2: a createRound request handled while an active Round exists is answered
\* with 409, creates no Round and no Guess and leaves the active Round as it
\* is; the client's createRound then throws, so its caller shows the error
\* screen and takes no round into its state.
CreateWhileActiveFails ==
    [][/\ \A i \in 1..Len(reqs) :
            (Cardinality(ActiveIds) > 0 /\ Deliver(i, ServerCreateRound(reqs[i])))
                => /\ rounds' = rounds
                   /\ sguesses' = sguesses
                   /\ Response(reqs[i], 409, NoRound, <<>>) \in resps'
       /\ \A p \in resps :
            (p.status = 409 /\ p.mount = mount /\ CreateRoundDone(p))
                => /\ gamePhase' = "error"
                   /\ roundState' = roundState]_vars

\* The page shows the error screen and holds no round while the backend has
\* an active one: its createRound was refused.
CreateRefusedShown ==
    /\ fault = "none"
    /\ gamePhase = "error"
    /\ roundState.currentRound = NoRound
    /\ Cardinality(ActiveIds) = 1
    /\ Idle(reqs, resps, completeTimer)

\* C3: once createRound(f) has succeeded and the round it made is the active
\* one, the Round getActiveRound returns embeds the filters f (pronouns,
\* tenses, moods, verb class, question count, retry policy, with an omitted
\* verb class left to the backend) and has exactly f.num_questions guesses.
CreatedRoundEmbedsFilters ==
    \A p \in resps :
        (p.op = "create" /\ p.status = 200 /\ ActiveIds = {p.round.id})
            => LET r == rounds[p.round.id]
               IN /\ r.pronouns = p.flt.pronouns
                  /\ r.tenses = p.flt.tenses
                  /\ r.moods = p.flt.moods
                  /\ r.num_questions = p.flt.num_questions
                  /\ r.allow_retry = p.flt.allow_retry
                  /\ p.flt.verb_class # Undefined => r.verb_class = p.flt.verb_class
                  /\ Len(sguesses[p.round.id]) = p.flt.num_questions

\* C4: once the round the page has finished is completed and nothing is
\* pending, its numCorrectAnswers is the number of its Guesses with isCorrect
\* true and is the score.correct the page ends with, whatever the order in
\* which the guess updates and the completion were handled (no call having
\* failed).
NumCorrectMatchesScore ==
    \A r \in CompletedIds :
        (/\ fault = "none"
         /\ Idle(reqs, resps, completeTimer)
         /\ roundState.currentRound.id = r /\ roundState.isComplete)
            => /\ rounds[r].num_correct_answers = CountCorrect(sguesses[r])
               /\ rounds[r].num_correct_answers = roundState.score.correct

\* C5: a Guess that is answered or skipped is never changed again, whatever
\* guess-update request the backend handles next.
GuessFinalizedOnce ==
    [][\A r \in 1..Len(sguesses) : \A i \in 1..Len(sguesses[r]) :
          (sguesses[r][i].user_answer # Null \/ sguesses[r][i].skipped)
              => sguesses'[r][i] = sguesses[r][i]]_vars

\* The backend has handled two updates of one Guess: the Guess is final there
\* with one outcome, the page holds another answer for it, and no request is
\* left in flight.
SecondUpdateRejected ==
    /\ fault = "none"
    /\ Idle(reqs, resps, completeTimer)
    /\ roundState.currentRound.id \in RoundIds
    /\ \E i \in 1..Len(roundState.guesses) :
          LET g == sguesses[roundState.currentRound.id][i]
          IN /\ g.user_answer # Null \/ g.skipped
             /\ roundState.guesses[i].user_answer # Null
             /\ roundState.guesses[i].user_answer # g.user_answer

\* C6: with the retry option on and no retry used on the card, submitting a
\* wrong answer changes neither the Guess nor the score, sends no request and
\* does not reveal the answer.
RetryLeavesGuessUnanswered ==
    [][\A a \in Inputs :
          (/\ CardShown(gamePhase, roundState)
           /\ filters.allow_retry /\ ~card.hasRetried
           /\ Trim(a) # <<>> /\ ~IsCorrect(a, CurrentGuess(roundState))
           /\ HandleSubmit(a))
              => /\ roundState' = roundState
                 /\ reqs' = reqs
                 /\ ~card'.showAnswer
                 /\ answerState' = answerState]_vars

\* A wrong answer has used the retry: the card is still open, its Guess is
\* unanswered on the page and in the backend, the score is untouched.
RetryPending ==
    /\ CardShown(gamePhase, roundState)
    /\ card.hasRetried /\ ~card.showAnswer
    /\ CurrentGuess(roundState).user_answer = Null
    /\ CurrentGuess(roundState).is_correct = "null"
    /\ roundState.score = [correct |-> 0, total |-> 0]
    /\ roundState.currentRound.id \in RoundIds
    /\ \A i \in 1..Len(roundState.guesses) :
          ~Finalized(sguesses[roundState.currentRound.id][i])
    /\ Idle(reqs, resps, completeTimer)

\* C7: a submission for a Guess that has already been granted a retry
\* finalizes it, also after the page was left or reloaded in between; with the
\* retry option off every submission finalizes.
OneRetryPerGuess ==
    [][\A a \in Inputs :
          (/\ CardShown(gamePhase, roundState)
           /\ Trim(a) # <<>>
           /\ HandleSubmit(a))
              => /\ retryGid = CurrentGuess(roundState).id => card'.showAnswer
                 /\ ~filters.allow_retry => card'.showAnswer]_vars

\* C8: skipping a card leaves its Guess final: skipped, without an answer,
\* incorrect.
SkipFinalizesGuess ==
    [][OnSkip =>
          LET g == roundState'.guesses[roundState.currentGuessIndex + 1]
          IN g.skipped /\ g.user_answer = Null /\ g.is_correct = "false"]_vars

\* C9: skipping a Guess that was open adds one to score.total and leaves
\* score.correct, so that the score counts the answered and the skipped.
ScoreCountsSkipped ==
    [][(OnSkip /\ ~CurrentGuess(roundState).skipped) =>
          /\ roundState'.score.total = roundState.score.total + 1
          /\ roundState'.score.correct = roundState.score.correct]_vars

\* C10: a transition of the active Round with valid filters answers with the
\* old Round completed and a new active Round with its guesses, the new Round
\* is then the only active one, and the page that asked takes the new Round
\* at question 0 with score 0/0 and not complete.
TransitionYieldsNewRound ==
    [][/\ \A i \in 1..Len(reqs) :
            (/\ reqs[i].op = "transition"
             /\ reqs[i].id \in ActiveIds
             /\ ValidateFilters(reqs[i].body)
             /\ Deliver(i, ServerTransitionRound(reqs[i])))
                => \E p \in resps' :
                      /\ p.op = "transition" /\ p.mount = reqs[i].mount
                      /\ p.status = 200
                      /\ p.completed_round.id = reqs[i].id
                      /\ p.completed_round.status = "completed"
                      /\ p.round.id # reqs[i].id
                      /\ p.round.status = "active"
                      /\ Len(p.guesses) = p.round.num_questions
                      /\ rounds'[reqs[i].id].status = "completed"
                      /\ {r \in 1..Len(rounds') : rounds'[r].status = "active"}
                            = {p.round.id}
       /\ \A p \in resps :
            (/\ p.op = "transition" /\ p.status = 200 /\ p.mount = mount
             /\ TransitionRoundDone(p))
                => /\ roundState' = [currentRound |-> p.round,
                                     guesses |-> p.guesses,
                                     currentGuessIndex |-> 0,
                                     isComplete |-> FALSE,
                                     score |-> [correct |-> 0, total |-> 0]]
                   /\ gamePhase' = "playing"]_vars

\* The page plays the second Round from its first question while the first
\* Round is completed with none of its Guesses resolved: it was left by a
\* transition.
TransitionShown ==
    /\ fault = "none"
    /\ Idle(reqs, resps, completeTimer)
    /\ Len(rounds) = 2
    /\ rounds[1].status = "completed" /\ rounds[2].status = "active"
    /\ \A i \in 1..Len(sguesses[1]) : ~Finalized(sguesses[1][i])
    /\ gamePhase = "playing"
    /\ roundState.currentRound = rounds[2]
    /\ roundState.currentGuessIndex = 0
    /\ roundState.score = [correct |-> 0, total |-> 0]
    /\ ~roundState.isComplete

\* C11: a transition that fails once the old Round is completed and before
\* the new one is created leaves the old Round completed with its Guesses and
\* its count of correct answers, and no Round active; the page that asked
\* shows the error screen, and from there initializeApp, told that there is no
\* active Round, asks for a Round with usable filters, gets it and plays it.
TransitionFailureRetryable ==
    [][/\ \A i \in 1..Len(reqs) :
            Deliver(i, ServerTransitionRoundFails(reqs[i]))
                => /\ rounds'[reqs[i].id].status = "completed"
                   /\ rounds'[reqs[i].id].num_correct_answers
                         = IF rounds[reqs[i].id].status = "active"
                           THEN CountCorrect(sguesses[reqs[i].id])
                           ELSE rounds[reqs[i].id].num_correct_answers
                   /\ sguesses' = sguesses
                   /\ Len(rounds') = Len(rounds)
                   /\ ActiveIds \subseteq {reqs[i].id}
                         => \A r \in 1..Len(rounds') : rounds'[r].status # "active"
       /\ fault = "transitionAborted" =>
            /\ \A p \in resps :
                 (p.status = 500 /\ p.mount = mount /\ TransitionRoundDone(p))
                    => gamePhase' = "error"
            /\ (gamePhase = "error" /\ TryAgain)
                    => reqs'[Len(reqs')].op = "getActive"
            /\ \A p \in resps :
                 (p.status = 404 /\ InitializeAppActive(p))
                    => LET m == reqs'[Len(reqs')]
                       IN /\ Len(reqs') = Len(reqs) + 1
                          /\ m.op = "create" /\ m.mount = p.mount
                          /\ ValidateFilters(m.body)
            /\ \A i \in 1..Len(reqs) :
                 (/\ ActiveIds = {}
                  /\ reqs[i].op = "create"
                  /\ ValidateFilters(reqs[i].body)
                  /\ Deliver(i, ServerCreateRound(reqs[i])))
                    => \E p \in resps' :
                          /\ p.op = "create" /\ p.mount = reqs[i].mount
                          /\ p.status = 200
                          /\ p.round.id = Len(rounds')
                          /\ rounds'[p.round.id].status = "active"
            /\ \A p \in resps :
                 (p.status = 200 /\ p.mount = mount /\ CreateRoundDone(p))
                    => /\ gamePhase' = "playing"
                       /\ roundState'.currentRound = p.round]_vars

\* On the page that saw the transition fail, a round created after the
\* failure is being played, the old one being completed.
RetriedAfterTransitionFailure ==
    /\ fault = "transitionAborted"
    /\ mount = 1
    /\ gamePhase = "playing"
    /\ roundState.currentRound # NoRound
    /\ roundState.currentRound.id = 2
    /\ ActiveIds = {2}
    /\ rounds[1].status = "completed"
    /\ Idle(reqs, resps, completeTimer)

\* C12: completeRound handled for a Round that is already completed changes
\* nothing: the Round keeps its status, endedAt and numCorrectAnswers, the
\* Guesses are untouched, and no error reaches the page.
CompleteRoundIdempotent ==
    [][\A i \in 1..Len(reqs) :
          (/\ reqs[i].op = "complete"
           /\ reqs[i].id \in CompletedIds
           /\ Deliver(i, ServerCompleteRound(reqs[i])))
              => /\ rounds' = rounds
                 /\ sguesses' = sguesses
                 /\ resps' = resps
                 /\ gamePhase' = gamePhase
                 /\ roundState' = roundState]_vars

\* A completeRound request is in flight for a Round that an earlier one has
\* completed with a correct answer counted.
CompleteAgainPending ==
    \E i \in 1..Len(reqs) :
       /\ reqs[i].op = "complete"
       /\ reqs[i].id \in CompletedIds
       /\ rounds[reqs[i].id].num_correct_answers > 0

\* C13: in a session whose failed call is a background one (a guess update,
\* a skip, or the completeRound sent after the last question), the page never
\* shows the error screen.
SyncFailureNeverBlocks ==
    fault \in {"guess", "skip", "complete"} => gamePhase # "error"

\* C14: a guess update that fails changes nothing on the page, and Next on a
\* revealed card whose answer the backend has not stored (the update is still
\* in flight, or failed) moves to the next card, or finishes the round on the
\* last one, with every Guess of the page keeping its answer and correctness.
FailedUpdateDoesNotBlock ==
    [][/\ \A i \in 1..Len(reqs) :
            (reqs[i].op = "guess" /\ RequestFails(i))
                => /\ roundState' = roundState
                   /\ gamePhase' = gamePhase
                   /\ card' = card
                   /\ answerState' = answerState
       /\ (/\ CardShown(gamePhase, roundState)
           /\ card.showAnswer
           /\ CurrentGuess(roundState).user_answer # Null
           /\ ~Finalized(sguesses[CurrentGuess(roundState).id[1]]
                                  [CurrentGuess(roundState).id[2]])
           /\ HandleNext)
              => /\ roundState'.guesses = roundState.guesses
                 /\ gamePhase' = gamePhase
                 /\ IF roundState.currentGuessIndex + 1 < Len(roundState.guesses)
                    THEN /\ roundState'.currentGuessIndex
                              = roundState.currentGuessIndex + 1
                         /\ ~roundState'.isComplete
                    ELSE /\ roundState'.isComplete
                         /\ completeTimer']_vars

\* The update of the first Guess failed, nothing is pending, and the page has
\* moved on to the second card with the first answer kept.
MovedOnAfterFailedUpdate ==
    /\ fault = "guess"
    /\ Idle(reqs, resps, completeTimer)
    /\ gamePhase = "playing"
    /\ roundState.currentRound # NoRound
    /\ roundState.currentGuessIndex = 1
    /\ roundState.guesses[1].user_answer # Null
    /\ roundState.guesses[1].is_correct = "true"
    /\ ~Finalized(sguesses[roundState.currentRound.id][1])

\* C15: changing the filters in the panel changes neither the stored Rounds
\* nor the page's round, and a wrong answer to a card of the round is granted
\* a retry exactly when the Round was created with the retry option and the
\* card has not used its retry, whatever the filters in the panel are now.
RoundFiltersGovernRetry ==
    [][/\ \A f \in FilterChoices :
            FiltersChange(f) => rounds' = rounds /\ sguesses' = sguesses
                                /\ roundState' = roundState
       /\ \A a \in Inputs :
            (/\ CardShown(gamePhase, roundState)
             /\ ~card.showAnswer
             /\ Trim(a) # <<>>
             /\ ~IsCorrect(a, CurrentGuess(roundState))
             /\ HandleSubmit(a))
                => LET retry == /\ roundState.currentRound.allow_retry
                                /\ ~card.hasRetried
                   IN card'.showAnswer <=> ~retry]_vars

\* C16: every createRound and transitionRound request in flight carries a
\* non-empty set of pronouns, of tenses and of moods.
NoRoundRequestWithEmptySet ==
    \A i \in 1..Len(reqs) :
       reqs[i].op \in {"create", "transition"}
          => /\ reqs[i].body.pronouns # {}
             /\ reqs[i].body.tenses # {}
             /\ reqs[i].body.moods # {}

\* The page has asked for a round while the selection in its panel has an
\* empty dimension.
RoundRequestedDespiteEmptySelection ==
    /\ filters.pronouns = {} \/ filters.tenses = {} \/ filters.moods = {}
    /\ \E i \in 1..Len(reqs) :
          reqs[i].op \in {"create", "transition"} /\ reqs[i].mount = mount

\* ------------------------------------------------- the comparison of a submit
\* Flashcard.handleSubmit applied to every typed text and every stored form of
\* at most MaxLen characters over a lower-case letter, its capital and the
\* blank: a page showing the first card of a round just created.
MaxLen == 3
Alphabet == {"a", "A", " "}
Strings == UNION {[1..n -> Alphabet] : n \in 1..MaxLen}

InitSubmit ==
    \E form \in Strings :
       LET round == NewRound(1, RequestBody(DefaultFilters))
           batch == [i \in 1..DEFAULT_NUM_QUESTIONS |->
                        [id |-> <<1, i>>,
                         correct_answer |-> IF i = 1 THEN form ELSE <<"a">>,
                         user_answer |-> Null, is_correct |-> "null",
                         skipped |-> FALSE]]
       IN /\ rounds = <<round>>
          /\ sguesses = <<batch>>
          /\ reqs = <<>>
          /\ resps = {}
          /\ mount = 1
          /\ gamePhase = "playing"
          /\ roundState = [currentRound |-> round, guesses |-> batch,
                           currentGuessIndex |-> 0, isComplete |-> FALSE,
                           score |-> [correct |-> 0, total |-> 0]]
          /\ answerState = "unanswered"
          /\ filters = DefaultFilters
          /\ pendingFilters = NoFilters
          /\ showFilterWarning = FALSE
          /\ completeTimer = FALSE
          /\ card = InitCard
          /\ retryGid = NoGuess
          /\ fault = "none"
          /\ ahead = 0
          /\ nextTimers = 0
          /\ nav = InitNav
          /\ altFilters = DefaultFilters

\* submitAnswer's request body: is_correct is the literal true.
SubmitAnswerReq(gid, answer) ==
    [op |-> "guess", gid |-> gid, user_answer |-> answer, is_correct |-> "true",
     late |-> 0]

\* services/api's submitAnswer(roundId, guessId, answer), called for the card
\* on display; the page itself has no call of it.
SubmitAnswer(answer) ==
    /\ CardShown(gamePhase, roundState)
    /\ reqs = <<>>
    /\ reqs' = Send(reqs, SubmitAnswerReq(CurrentGuess(roundState).id, answer))
    /\ UNCHANGED <<server, resps, client, altFilters, ahead, retryGid, fault>>

NextSubmit ==
    \/ \E a \in Strings : HandleSubmit(a)
    \/ \E a \in Strings : SubmitAnswer(a)

SpecSubmit == InitSubmit /\ [][NextSubmit]_vars

\* C17: a finalizing submit marks the Guess correct exactly when the typed
\* text, lower-cased and trimmed, equals the stored form, lower-cased and
\* trimmed, for every typed text and every stored form.
SubmitComparesNormalized ==
    [][\A a \in Strings :
          (/\ CardShown(gamePhase, roundState)
           /\ HandleSubmit(a)
           /\ card'.showAnswer)
              => LET g == CurrentGuess(roundState)
                     correct == Trim(ToLowerCase(a)) = Trim(ToLowerCase(g.correct_answer))
                 IN /\ roundState'.guesses[1].is_correct
                         = IF correct THEN "true" ELSE "false"
                    /\ answerState' = IF correct THEN "correct" ELSE "incorrect"]_vars

\* C18: no guess-update request says is_correct = true for an answer that,
\* lower-cased and trimmed, differs from the stored form, lower-cased and
\* trimmed.
NoTrueForIncorrectAnswer ==
    \A i \in 1..Len(reqs) :
       (reqs[i].op = "guess" /\ reqs[i].is_correct = "true")
          => Trim(ToLowerCase(reqs[i].user_answer))
                = Trim(ToLowerCase(sguesses[reqs[i].gid[1]][reqs[i].gid[2]].correct_answer))

\* C19: when createRound fails for good (the call is answered 500), the page
\* that asked goes to the filter selection with its filters as they were.
CreateFailureReturnsToFilters ==
    [][\A p \in resps :
          (/\ p.op = "create" /\ p.status = 500 /\ p.mount = mount
           /\ CreateRoundDone(p))
              => /\ gamePhase' = "filter_selection"
                 /\ filters' = filters]_vars

\* C20: told by getActiveRound that there is no active Round, initializeApp
\* calls createRound with the filters it holds, or, when one of their
\* dimensions is empty, with pronouns {yo, tu}, tenses {present}, moods
\* {indicative}, the default number of questions and no retry; given an active
\* Round, it calls no createRound and the page resumes that Round.
InitializeAppCreatesOrResumes ==
    [][\A p \in resps :
          (p.op = "getActive" /\ InitializeAppActive(p))
              => /\ p.status = 404 =>
                      LET m == reqs'[Len(reqs')]
                          given == p.flt.pronouns # {} /\ p.flt.tenses # {}
                                   /\ p.flt.moods # {}
                      IN /\ Len(reqs') = Len(reqs) + 1
                         /\ m.op = "create" /\ m.mount = p.mount
                         /\ m.flt.pronouns = IF given THEN p.flt.pronouns
                                             ELSE {"yo", "tu"}
                         /\ m.flt.tenses = IF given THEN p.flt.tenses
                                           ELSE {"present"}
                         /\ m.flt.moods = IF given THEN p.flt.moods
                                          ELSE {"indicative"}
                         /\ m.flt.num_questions
                               = IF given /\ p.flt.num_questions # 0
                                 THEN p.flt.num_questions
                                 ELSE DEFAULT_NUM_QUESTIONS
                         /\ m.flt.allow_retry = (given /\ p.flt.allow_retry)
                         /\ m.body.pronouns = m.flt.pronouns
                         /\ m.body.tenses = m.flt.tenses
                         /\ m.body.moods = m.flt.moods
                         /\ m.body.num_questions = m.flt.num_questions
                 /\ p.status = 200 =>
                      /\ reqs' = reqs
                      /\ p.mount = mount =>
                            /\ gamePhase' = "playing"
                            /\ roundState'.currentRound = p.round
                            /\ roundState'.guesses = p.guesses
                            /\ ~roundState'.isComplete]_vars

\* getActiveRound has told the initializeApp of the live page that there is
\* no active Round, and the filters initializeApp holds have an empty
\* dimension.
NotFoundWithEmptyFilters ==
    \E p \in resps :
       /\ p.op = "getActive" /\ p.status = 404 /\ p.mount = mount
       /\ p.flt.pronouns = {} \/ p.flt.tenses = {} \/ p.flt.moods = {}
       /\ gamePhase = "loading"

\* C21: a finalizing submit changes only the answer and the correctness of
\* the Guess on display (and the score derived from them); as long as the
\* page holds a Round, the number and order of its Guesses and each Guess's id
\* and correct form stay as they are, on the page and in the store.
FinalizeChangesOnlyTheGuess ==
    [][/\ \A a \in Inputs :
            (/\ CardShown(gamePhase, roundState)
             /\ HandleSubmit(a)
             /\ card'.showAnswer)
                => LET k == roundState.currentGuessIndex + 1
                   IN /\ Len(roundState'.guesses) = Len(roundState.guesses)
                      /\ \A j \in 1..Len(roundState.guesses) :
                            IF j = k
                            THEN roundState'.guesses[j]
                                   = [roundState.guesses[j] EXCEPT
                                         !.user_answer = roundState'.guesses[j].user_answer,
                                         !.is_correct = roundState'.guesses[j].is_correct]
                            ELSE roundState'.guesses[j] = roundState.guesses[j]
                      /\ roundState'.currentRound = roundState.currentRound
                      /\ roundState'.currentGuessIndex = roundState.currentGuessIndex
       /\ (roundState.currentRound # NoRound
           /\ roundState'.currentRound.id = roundState.currentRound.id)
              => /\ Len(roundState'.guesses) = Len(roundState.guesses)
                 /\ \A j \in 1..Len(roundState.guesses) :
                       /\ roundState'.guesses[j].id = roundState.guesses[j].id
                       /\ roundState'.guesses[j].correct_answer
                            = roundState.guesses[j].correct_answer
       /\ \A r \in 1..Len(sguesses) :
              /\ Len(sguesses'[r]) = Len(sguesses[r])
              /\ \A j \in 1..Len(sguesses[r]) :
                    /\ sguesses'[r][j].id = sguesses[r][j].id
                    /\ sguesses'[r][j].correct_answer = sguesses[r][j].correct_answer]_vars

\* The page has finalized both Guesses of its round, the second after the
\* first.
BothGuessesFinalized ==
    /\ CardShown(gamePhase, roundState)
    /\ roundState.currentGuessIndex = 1
    /\ card.showAnswer
    /\ roundState.guesses[1].user_answer # Null
    /\ roundState.guesses[2].user_answer # Null
    /\ roundState.guesses[1].is_correct # roundState.guesses[2].is_correct

\* ------------------------------------------------ the panel's pronoun boxes
\* FilterPanel.handlePronounChange applied to the pronoun array the panel
\* holds; here filters.pronouns is that array (a sequence), in the order the
\* codes were pushed.
PronounOptions ==
    {[value |-> "yo", includes |-> <<"yo">>],
     [value |-> "tu", includes |-> <<"tu">>],
     [value |-> "el_ella", includes |-> <<"el", "ella">>],
     [value |-> "usted", includes |-> <<"usted">>],
     [value |-> "nosotros", includes |-> <<"nosotros">>],
     [value |-> "vosotros", includes |-> <<"vosotros">>],
     [value |-> "ellos_ellas", includes |-> <<"ellos", "ustedes">>]}

\* Array.prototype.includes
Includes(list, x) == \E i \in 1..Len(list) : list[i] = x

\* isPronounChecked
IsPronounChecked(pronouns, option) ==
    \A i \in 1..Len(option.includes) : Includes(pronouns, option.includes[i])

\* option.includes.forEach(pronoun => newPronouns.push(pronoun)), without the
\* test for a code that is already there.
RECURSIVE PushAll(_, _)
PushAll(list, items) ==
    IF items = <<>> THEN list
    ELSE PushAll(Append(list, Head(items)), Tail(items))

\* option.includes.forEach(pronoun => { if (!newPronouns.includes(pronoun))
\*                                        newPronouns.push(pronoun) })
RECURSIVE PushMissing(_, _)
PushMissing(list, items) ==
    IF items = <<>> THEN list
    ELSE PushMissing(IF Includes(list, Head(items)) THEN list
                     ELSE Append(list, Head(items)),
                     Tail(items))

\* newPronouns.filter(pronoun => !option.includes.includes(pronoun))
WithoutOption(list, option) ==
    SelectSeq(list, LAMBDA p : ~Includes(option.includes, p))

\* handlePronounChange pushing the option's codes whether or not they are there.
NewPronounsPushAll(pronouns, option, checked) ==
    IF checked THEN PushAll(pronouns, option.includes)
    ELSE WithoutOption(pronouns, option)

\* handlePronounChange's new pronoun array.
NewPronouns(pronouns, option, checked) ==
    IF checked THEN PushMissing(pronouns, option.includes)
    ELSE WithoutOption(pronouns, option)

InitPronouns ==
    /\ rounds = <<>>
    /\ sguesses = <<>>
    /\ reqs = <<>>
    /\ resps = {}
    /\ mount = 1
    /\ gamePhase = "filter_selection"
    /\ roundState = InitRoundState
    /\ answerState = "unanswered"
    /\ filters = [DefaultFilters EXCEPT !.pronouns = <<"yo", "tu">>]
    /\ pendingFilters = NoFilters
    /\ showFilterWarning = FALSE
    /\ completeTimer = FALSE
    /\ card = InitCard
    /\ retryGid = NoGuess
    /\ fault = "none"
    /\ ahead = 0
    /\ nextTimers = 0
    /\ nav = InitNav
    /\ altFilters = DefaultFilters

\* handlePronounChange(option, checked), then onFiltersChange = setFilters.
HandlePronounChange(option, checked) ==
    /\ filters' = [filters EXCEPT
                      !.pronouns = NewPronouns(filters.pronouns, option, checked)]
    /\ UNCHANGED <<server, reqs, resps, mount, gamePhase, roundState,
                   answerState, pendingFilters, showFilterWarning, completeTimer,
                   card, altFilters, ahead, retryGid, fault, nextTimers, nav>>

NextPronouns ==
    \E option \in PronounOptions, checked \in BOOLEAN :
       HandlePronounChange(option, checked)

SpecPronouns == InitPronouns /\ [][NextPronouns]_vars

\* C22: the pronoun array never holds a code twice, and checking a group once
\* more changes nothing: checking a group that is checked gives the array
\* back, and checking any group twice gives what checking it once gives, with
\* the group then checked.
PronounExpansionIdempotent ==
    /\ \A i, j \in 1..Len(filters.pronouns) :
          filters.pronouns[i] = filters.pronouns[j] => i = j
    /\ \A option \in PronounOptions :
          LET once == NewPronouns(filters.pronouns, option, TRUE)
          IN /\ NewPronouns(once, option, TRUE) = once
             /\ IsPronounChecked(once, option)
             /\ IsPronounChecked(filters.pronouns, option) => once = filters.pronouns

\* Both compound groups are checked, all their codes being in the array.
CompoundGroupsChecked ==
    /\ \A c \in {"el", "ella", "ellos", "ustedes"} : Includes(filters.pronouns, c)
    /\ Len(filters.pronouns) >= 5

MaxQuestions == 20

\* Math.round of the quotient n / d by truncation, dropping the fraction.
MathRoundTruncates(n, d) == n \div d

\* Math.round of the quotient n / d of two naturals, d > 0: the integer
\* floor(n / d + 1/2), halves going up.
MathRound(n, d) == (2 * n + d) \div (2 * d)

\* RoundComplete's percentage and the score line of the playing page.
Percentage(score) ==
    IF score.total > 0 THEN MathRound(score.correct * 100, score.total) ELSE 0

\* The history page's getScorePercentage(round).
GetScorePercentage(round) ==
    IF round.num_questions = 0 THEN 0
    ELSE MathRound(round.num_correct_answers * 100, round.num_questions)

\* The scores calculateScore can give for a round of up to MaxQuestions
\* guesses: correct counts a subset of the guesses total counts.
Scores ==
    {s \in [correct : 0..MaxQuestions, total : 0..MaxQuestions] :
        s.correct <= s.total}

InitScore ==
    /\ rounds = <<>>
    /\ sguesses = <<>>
    /\ reqs = <<>>
    /\ resps = {}
    /\ mount = 1
    /\ gamePhase = "playing"
    /\ roundState \in {[InitRoundState EXCEPT !.score = s] : s \in Scores}
    /\ answerState = "unanswered"
    /\ filters = DefaultFilters
    /\ pendingFilters = NoFilters
    /\ showFilterWarning = FALSE
    /\ completeTimer = FALSE
    /\ card = InitCard
    /\ retryGid = NoGuess
    /\ fault = "none"
    /\ ahead = 0
    /\ nextTimers = 0
    /\ nav = InitNav
    /\ altFilters = DefaultFilters

\* The score after one more guess is answered, as handleAnswer's
\* calculateScore gives it, and the render that shows its percentage.
ScoreAnswer(correct) ==
    /\ roundState.score.total < MaxQuestions
    /\ roundState' = [roundState EXCEPT
                         !.score = [correct |-> @.correct + (IF correct THEN 1 ELSE 0),
                                    total |-> @.total + 1]]
    /\ UNCHANGED <<server, reqs, resps, mount, gamePhase, answerState, filters,
                   pendingFilters, showFilterWarning, completeTimer, card,
                   altFilters, ahead, retryGid, fault, nextTimers, nav>>

NextScore == \E correct \in BOOLEAN : ScoreAnswer(correct)

SpecScore == InitScore /\ [][NextScore]_vars

\* C24: the percentage shown for a score is 0 when total is 0, otherwise an
\* integer nearest to 100 * correct / total (at most one half away from it),
\* and it always lies in 0..100; the history page's percentage of a round
\* with these counts is the same number.
PercentageIsRounded ==
    LET s == roundState.score
        p == Percentage(s)
        h == GetScorePercentage([num_correct_answers |-> s.correct,
                                 num_questions |-> s.total])
    IN /\ s.total = 0 => p = 0
       /\ s.total > 0 =>
             /\ 2 * (100 * s.correct - p * s.total) <= s.total
             /\ 2 * (p * s.total - 100 * s.correct) <= s.total
       /\ p \in 0..100
       /\ h = p

\* A score whose quotient is not an integer and rounds up: 2 of 3 shows 67.
PercentageRoundsUp ==
    /\ roundState.score = [correct |-> 2, total |-> 3]
    /\ Percentage(roundState.score) = 67

\* ---------------------------------------------------------------------------
\* The Question Sampler (4.2), on its own: the backend draws a batch for the
\* filters and question count of each round it creates.

MaxCount == 3

\* The verbs of the verb class, the pronouns and tenses on offer, and the
\* combinations for which the conjugation source has no form.
Verbs == {"ser", "llover"}
SamplerPronouns == {"yo", "tu"}
SamplerTenses == {"present", "preterite"}
Gaps == {<<"llover", p, t, "indicative">> : p \in SamplerPronouns, t \in SamplerTenses}
           \ {<<"llover", "tu", "present", "indicative">>}

\* 4.2: the Cartesian product of the filters less the undefined forms.
Eligible(f) == (Verbs \X f.pronouns \X f.tenses \X f.moods) \ Gaps

\* A draw of count items that may repeat a combination.
DrawWithReplacement(S, count) == [1..count -> S]

\* A draw of count items none of which repeats.
DrawWithoutReplacement(S, count) ==
    {d \in [1..count -> S] : \A i, j \in 1..count : d[i] = d[j] => i = j}

\* A Sampler that always draws with replacement.
SampleAlwaysReplacing(f, count) == DrawWithReplacement(Eligible(f), count)

\* 4.2 sample(filters, count): without replacement, or with replacement when
\* the eligible set has fewer than count elements.
Sample(f, count) ==
    IF Cardinality(Eligible(f)) >= count
    THEN DrawWithoutReplacement(Eligible(f), count)
    ELSE DrawWithReplacement(Eligible(f), count)

\* The Guess persisted for the i-th drawn combination, its correct answer
\* resolved at the draw.
SeedGuess(id, i, combo) ==
    [id |-> <<id, i>>, verb |-> combo[1], pronoun |-> combo[2],
     tense |-> combo[3], mood |-> combo[4], correct_answer |-> <<"a">>,
     user_answer |-> Null, is_correct |-> "null", skipped |-> FALSE]

InitSampler ==
    /\ rounds = <<>>
    /\ sguesses = <<>>
    /\ reqs = <<>>
    /\ resps = {}
    /\ mount = 1
    /\ gamePhase = "filter_selection"
    /\ roundState = InitRoundState
    /\ answerState = "unanswered"
    /\ filters \in {[DefaultFilters EXCEPT !.pronouns = ps, !.tenses = ts] :
                       ps \in (SUBSET SamplerPronouns) \ {{}},
                       ts \in (SUBSET SamplerTenses) \ {{}}}
    /\ pendingFilters = NoFilters
    /\ showFilterWarning = FALSE
    /\ completeTimer = FALSE
    /\ card = InitCard
    /\ retryGid = NoGuess
    /\ fault = "none"
    /\ ahead = 0
    /\ nextTimers = 0
    /\ nav = InitNav
    /\ altFilters = DefaultFilters

\* The backend creates a round of count questions for the filters and keeps
\* the batch the Sampler returns, in the order drawn.
SamplerDraw(count) ==
    /\ \E d \in Sample(filters, count) :
          /\ rounds' = <<NewRound(1, [filters EXCEPT !.num_questions = count])>>
          /\ sguesses' = <<[i \in 1..count |-> SeedGuess(1, i, d[i])]>>
    /\ UNCHANGED <<reqs, resps, client, altFilters, ahead, retryGid, fault>>

NextSampler == \E count \in 1..MaxCount : SamplerDraw(count)

SpecSampler == InitSampler /\ [][NextSampler]_vars

\* The combination a Guess was drawn as.
Combination(g) == <<g.verb, g.pronoun, g.tense, g.mood>>

ProxyRoutes ==
    {"create", "active", "complete", "transition", "guess", "list", "round",
     "questions"}

\* The routes that read a JSON body from the request.
ReadsBody(route) == route \in {"create", "transition", "guess"}

\* What the fetch of the backend can give: no response at all, or a response
\* with a status and a body that is JSON, text, or absent (204).
BackendOutcomes(route) ==
    {[kind |-> "unreachable", status |-> 0, body |-> "none"]}
      \cup [kind : {"response"}, status : {200, 400, 404, 409, 500},
            body : {"json", "text"}]
      \cup (IF route = "guess"
            THEN {[kind |-> "response", status |-> 204, body |-> "none"]}
            ELSE {})

InitProxy ==
    /\ rounds = <<>>
    /\ sguesses = <<>>
    /\ reqs = <<>>
    /\ resps = {}
    /\ mount = 1
    /\ gamePhase = "loading"
    /\ roundState = InitRoundState
    /\ answerState = "unanswered"
    /\ filters = DefaultFilters
    /\ pendingFilters = NoFilters
    /\ showFilterWarning = FALSE
    /\ completeTimer = FALSE
    /\ card = InitCard
    /\ retryGid = NoGuess
    /\ fault = "none"
    /\ ahead = 0
    /\ nextTimers = 0
    /\ nav = InitNav
    /\ altFilters = DefaultFilters

ProxyAnswer(call, contacted, outcome, status) ==
    [route |-> call.route, validJson |-> call.validJson,
     contacted |-> contacted, outcome |-> outcome, status |-> status]

NoOutcome == [kind |-> "none", status |-> 0, body |-> "none"]

\* A route is called, with a request body that is valid JSON or not, and runs
\* up to its fetch of the backend: POST /api/rounds answers 400 to a body it
\* cannot parse, the other routes that read the body throw into their catch.
ProxyReceive(route, validJson) ==
    LET call == [route |-> route, validJson |-> validJson]
    IN /\ reqs = <<>>
       /\ IF ReadsBody(route) /\ ~validJson
          THEN /\ reqs' = <<>>
               /\ resps' = {ProxyAnswer(call, FALSE, NoOutcome,
                                        IF route = "create" THEN 400 ELSE 500)}
          ELSE /\ reqs' = <<call>>
               /\ resps' = {}
       /\ UNCHANGED <<server, client, altFilters, ahead, retryGid, fault>>

\* The status the route answers with once its fetch has settled.
ProxyStatus(route, outcome) ==
    IF outcome.kind = "unreachable" THEN 500
    ELSE IF route = "create"
         THEN outcome.status
         ELSE IF outcome.body = "json" THEN outcome.status ELSE 500

\* The fetch settles and the route answers.
ProxyReply(outcome) ==
    /\ reqs # <<>>
    /\ outcome \in BackendOutcomes(reqs[1].route)
    /\ reqs' = <<>>
    /\ resps' = {ProxyAnswer(reqs[1], TRUE, outcome,
                             ProxyStatus(reqs[1].route, outcome))}
    /\ UNCHANGED <<server, client, altFilters, ahead, retryGid, fault>>

NextProxy ==
    \/ \E route \in ProxyRoutes, validJson \in BOOLEAN : ProxyReceive(route, validJson)
    \/ \E outcome \in UNION {BackendOutcomes(route) : route \in ProxyRoutes} :
          ProxyReply(outcome)

SpecProxy == InitProxy /\ [][NextProxy]_vars

\* C26: a route's answer carries the backend's status whenever the backend
\* responded, is 400 with the backend not contacted when POST /api/rounds got
\* a body that is not JSON, and is 500 only when the backend was called and
\* gave no response.
ProxyForwardsStatus ==
    \A a \in resps :
       /\ a.outcome.kind = "response" => a.status = a.outcome.status
       /\ (a.route = "create" /\ ~a.validJson) => (a.status = 400 /\ ~a.contacted)
       /\ a.status = 500 =>
             \/ a.contacted /\ a.outcome.kind = "unreachable"
             \/ a.outcome.kind = "response" /\ a.outcome.status = 500

\* ---------------------------------------------------------------------------
\* The card and its timers: the page playing a round just created, with
\* Flashcard.handleNext's press and the firing of its timer as separate steps.

NextQuestions == 3
MaxNextTimers == 2

InitNext ==
    LET round == NewRound(1, [RequestBody(DefaultFilters) EXCEPT
                                 !.num_questions = NextQuestions])
        batch == [i \in 1..NextQuestions |->
                     [id |-> <<1, i>>, correct_answer |-> <<"a">>,
                      user_answer |-> Null, is_correct |-> "null",
                      skipped |-> FALSE]]
    IN /\ rounds = <<round>>
       /\ sguesses = <<batch>>
       /\ reqs = <<>>
       /\ resps = {}
       /\ mount = 1
       /\ gamePhase = "playing"
       /\ roundState = [currentRound |-> round, guesses |-> batch,
                        currentGuessIndex |-> 0, isComplete |-> FALSE,
                        score |-> [correct |-> 0, total |-> 0]]
       /\ answerState = "unanswered"
       /\ filters = DefaultFilters
       /\ pendingFilters = NoFilters
       /\ showFilterWarning = FALSE
       /\ completeTimer = FALSE
       /\ card = InitCard
       /\ retryGid = NoGuess
       /\ fault = "none"
       /\ ahead = 0
       /\ nextTimers = 0
       /\ nav = InitNav
       /\ altFilters = DefaultFilters

\* The Next Card / Finish Round button (or 'n', ArrowRight) of a revealed card:
\* Flashcard.handleNext sets a 300 ms timer for onNext, and does so again when
\* pressed while a timer is pending.
FlashcardHandleNext ==
    /\ Paced
    /\ CardShown(gamePhase, roundState)
    /\ card.showAnswer
    /\ nextTimers < MaxNextTimers
    /\ nextTimers' = nextTimers + 1
    /\ UNCHANGED <<server, reqs, resps, mount, gamePhase, roundState,
                   answerState, filters, pendingFilters, showFilterWarning,
                   completeTimer, card, altFilters, retryGid, fault, nav>>
    /\ ahead' = ahead + 1

\* A timer of Flashcard.handleNext fires: onNext, FlashcardGame.handleNext, on
\* the round state as it is by then; the timer outlives the card that set it.
OnNext ==
    /\ nextTimers > 0
    /\ nextTimers' = nextTimers - 1
    /\ answerState' = "unanswered"
    /\ roundState' = HandleNextState(roundState)
    /\ IF roundState.currentGuessIndex + 1 >= Len(roundState.guesses)
       THEN /\ completeTimer' = TRUE
            /\ reqs' = IF roundState.currentRound # NoRound
                       THEN Send(reqs, CompleteRoundReq(roundState.currentRound.id))
                       ELSE reqs
       ELSE UNCHANGED <<completeTimer, reqs>>
    /\ card' = CardAfter(gamePhase, HandleNextState(roundState))
    /\ UNCHANGED <<server, resps, mount, gamePhase, filters, pendingFilters,
                   showFilterWarning, altFilters, retryGid, fault, nav>>
    /\ Lag(0)

NextNext ==
    \/ \E a \in Inputs : HandleSubmit(a)
    \/ FlashcardHandleNext
    \/ OnNext
    \/ OnSkip
    \/ RoundCompleteTimer
    \/ \E i \in 1..Len(reqs) : Deliver(i, ServerSubmitGuess(reqs[i]))
    \/ \E i \in 1..Len(reqs) : Deliver(i, ServerSkipGuess(reqs[i]))
    \/ \E i \in 1..Len(reqs) : Deliver(i, ServerCompleteRound(reqs[i]))

SpecNext == InitNext /\ [][NextNext]_vars

\* A guess of the page is resolved: it holds an answer, or its answer or skip
\* is stored or on its way to the store.
Resolved(g) ==
    \/ g.user_answer # Null
    \/ Finalized(sguesses[g.id[1]][g.id[2]])
    \/ \E i \in 1..Len(reqs) : reqs[i].op \in {"guess", "skip"} /\ reqs[i].gid = g.id

\* C27: every guess before the current one is resolved, and while the round
\* is marked complete on the page, its completion is requested or it is
\* completed in the store, every guess of it is resolved.
AdvanceOnlyPastResolved ==
    /\ \A k \in 1..Len(roundState.guesses) :
          k <= roundState.currentGuessIndex => Resolved(roundState.guesses[k])
    /\ (\/ roundState.isComplete
        \/ \E i \in 1..Len(reqs) : reqs[i].op = "complete"
        \/ \E r \in CompletedIds : TRUE)
          => \A k \in 1..Len(roundState.guesses) : Resolved(roundState.guesses[k])

\* C28: a page that loads the active round resumes at the first guess that is
\* neither answered nor skipped, and no finalizing submit sends an answer
\* update for a Guess the store holds as skipped.
SkippedNeverPresentedAgain ==
    [][/\ \A p \in resps :
            (/\ p.op = "getActive" /\ p.mount = mount
             /\ ApiOutcome(p.status) = "return"
             /\ InitializeAppActive(p))
                => LET open == {i \in 1..Len(p.guesses) : ~Finalized(p.guesses[i])}
                   IN open # {} =>
                         /\ roundState'.currentGuessIndex + 1 \in open
                         /\ \A i \in open : roundState'.currentGuessIndex + 1 <= i
       /\ \A a \in Inputs :
            (/\ CardShown(gamePhase, roundState)
             /\ HandleSubmit(a)
             /\ Len(reqs') = Len(reqs) + 1)
                => LET gid == CurrentGuess(roundState).id
                   IN ~sguesses[gid[1]][gid[2]].skipped]_vars

\* C29: while the card on display shows a result, the verdict it shows
\* (Correct for the answer state 'correct', Incorrect otherwise) is the
\* is_correct of the Guess on display; the card fading out once the round is
\* finished is left aside.
VerdictMatchesIsCorrect ==
    (CardShown(gamePhase, roundState) /\ card.showAnswer /\ ~roundState.isComplete)
       => (answerState = "correct" <=> CurrentGuess(roundState).is_correct = "true")

\* C30: while the page is playing a round with at least one guess,
\* currentGuessIndex points at one of its guesses.
CurrentGuessIndexInRange ==
    (gamePhase = "playing" /\ Len(roundState.guesses) > 0)
       => /\ 0 <= roundState.currentGuessIndex
          /\ roundState.currentGuessIndex <= Len(roundState.guesses) - 1

\* The page, playing its second round after a transition or a new start, has
\* left the last card: the index stays on the last guess.
IndexHeldAtLastGuess ==
    /\ gamePhase = "playing"
    /\ roundState.isComplete
    /\ roundState.currentRound # NoRound
    /\ roundState.currentRound.id = 2
    /\ Len(roundState.guesses) > 0
    /\ roundState.currentGuessIndex = Len(roundState.guesses) - 1

\* ---------------------------------------------------------------------------
\* The round played to its end: the card specification started with the retry
\* box ticked or not, with a learner who keeps acting, timers that fire and a
\* backend that handles what it is sent.

InitRound ==
    /\ \E allowRetry \in BOOLEAN :
          LET round == NewRound(1, [RequestBody(DefaultFilters) EXCEPT
                                       !.num_questions = NextQuestions])
              batch == [i \in 1..NextQuestions |->
                           [id |-> <<1, i>>, correct_answer |-> <<"a">>,
                            user_answer |-> Null, is_correct |-> "null",
                            skipped |-> FALSE]]
          IN /\ rounds = <<round>>
             /\ sguesses = <<batch>>
             /\ reqs = <<>>
             /\ resps = {}
             /\ mount = 1
             /\ gamePhase = "playing"
             /\ roundState = [currentRound |-> round, guesses |-> batch,
                              currentGuessIndex |-> 0, isComplete |-> FALSE,
                              score |-> [correct |-> 0, total |-> 0]]
             /\ answerState = "unanswered"
             /\ filters = [DefaultFilters EXCEPT !.allow_retry = allowRetry]
             /\ pendingFilters = NoFilters
             /\ showFilterWarning = FALSE
             /\ completeTimer = FALSE
             /\ card = InitCard
             /\ retryGid = NoGuess
             /\ fault = "none"
             /\ ahead = 0
             /\ nextTimers = 0
             /\ nav = InitNav
             /\ altFilters = DefaultFilters

\* What the learner can do on a card.
LearnerActs ==
    \/ \E a \in Inputs : HandleSubmit(a)
    \/ FlashcardHandleNext
    \/ OnSkip

\* The timers of the page and the backend's handling of a request in flight.
PageTimers == OnNext \/ RoundCompleteTimer
BackendHandles ==
    \/ \E i \in 1..Len(reqs) : Deliver(i, ServerSubmitGuess(reqs[i]))
    \/ \E i \in 1..Len(reqs) : Deliver(i, ServerSkipGuess(reqs[i]))
    \/ \E i \in 1..Len(reqs) : Deliver(i, ServerCompleteRound(reqs[i]))

SpecRound ==
    /\ InitRound
    /\ [][NextNext]_vars
    /\ WF_vars(LearnerActs)
    /\ WF_vars(PageTimers)
    /\ WF_vars(BackendHandles)

\* C31: a round being played reaches the round_complete phase: a learner who
\* keeps acting cannot stay in the playing phase forever.
RoundReachesComplete == (gamePhase = "playing") ~> (gamePhase = "round_complete")

\* The round is over after a retry was granted on its last question and
\* every question got an answer.
RoundCompletedAfterRetry ==
    /\ gamePhase = "round_complete"
    /\ filters.allow_retry
    /\ retryGid = NoGuess
    /\ \A k \in 1..Len(roundState.guesses) :
          roundState.guesses[k].user_answer = <<"b">>

\* ---------------------------------------------------------------------------
\* Navigation within RootLayout: the tabs, the warning modal, and the app
\* state it gets from the practice page through lib/appState.

Tabs == {"/practice", "/history", "/metrics"}
Pathnames == Tabs \cup {"/"}

\* The app state FlashcardGame's effect derives from a round state
\* (currentRound?.id || null: 0 where there is no round).
AppStateOf(rs) ==
    [currentRoundId |-> rs.currentRound.id,
     currentQuestionIndex |-> rs.currentGuessIndex,
     hasActiveRound |-> rs.currentRound # NoRound /\ ~rs.isComplete]

\* The round states the practice page is taken through here: none loaded, and
\* a round at either question, finished or not.
NavRoundStates ==
    LET round == NewRound(1, RequestBody(DefaultFilters))
        batch == [i \in 1..DEFAULT_NUM_QUESTIONS |->
                     [id |-> <<1, i>>, correct_answer |-> <<"a">>,
                      user_answer |-> Null, is_correct |-> "null",
                      skipped |-> FALSE]]
    IN {InitRoundState}
         \cup {[currentRound |-> round, guesses |-> batch,
                currentGuessIndex |-> k, isComplete |-> c,
                score |-> [correct |-> 0, total |-> 0]] :
                  k \in 0..(DEFAULT_NUM_QUESTIONS - 1), c \in BOOLEAN}

InitNavigation ==
    /\ rounds = <<>>
    /\ sguesses = <<>>
    /\ reqs = <<>>
    /\ resps = {}
    /\ mount = 1
    /\ gamePhase = "loading"
    /\ roundState = InitRoundState
    /\ answerState = "unanswered"
    /\ filters = DefaultFilters
    /\ pendingFilters = NoFilters
    /\ showFilterWarning = FALSE
    /\ completeTimer = FALSE
    /\ card = InitCard
    /\ retryGid = NoGuess
    /\ fault = "none"
    /\ ahead = 0
    /\ nextTimers = 0
    /\ nav \in {[InitNav EXCEPT !.pathname = p] : p \in Pathnames}
    /\ altFilters = DefaultFilters

\* The practice page renders with a new round state and its effect writes the
\* app state: setAppState merges it into globalAppState.
FlashcardGameRenders(rs) ==
    /\ nav.pathname = "/practice"
    /\ rs # roundState
    /\ roundState' = rs
    /\ nav' = [nav EXCEPT !.global = AppStateOf(rs)]
    /\ UNCHANGED <<server, reqs, resps, mount, gamePhase, answerState, filters,
                   pendingFilters, showFilterWarning, completeTimer, card,
                   nextTimers, altFilters, ahead, retryGid, fault>>

\* RootLayout's 100 ms interval finds the global app state changed and copies
\* it; Navigation gets hasActiveRound from the copy.
SyncAppState ==
    /\ nav.appState # nav.global
    /\ nav' = [nav EXCEPT !.appState = nav.global]
    /\ UNCHANGED <<server, reqs, resps, mount, gamePhase, roundState,
                   answerState, filters, pendingFilters, showFilterWarning,
                   completeTimer, card, nextTimers, altFilters, ahead, retryGid,
                   fault>>

\* router.push(path): the route changes. The practice page is unmounted when
\* left and mounted anew when entered, its effect then writing the app state
\* of its initial round state.
Pushed(n, path) ==
    IF path = "/practice" /\ n.pathname # "/practice"
    THEN [n EXCEPT !.pathname = path, !.global = AppStateOf(InitRoundState)]
    ELSE [n EXCEPT !.pathname = path]
PushedRoundState(n, path) ==
    IF (path = "/practice") # (n.pathname = "/practice") THEN InitRoundState
    ELSE roundState

\* handleTabClick that pushes the route whatever the round.
NavAfterTabClickPushes(n, path) == Pushed(n, path)

\* handleTabClick(path)
NavAfterTabClick(n, path) ==
    IF n.appState.hasActiveRound /\ n.pathname = "/practice" /\ path # "/practice"
    THEN [n EXCEPT !.pendingRoute = path, !.showWarning = TRUE]
    ELSE Pushed(n, path)

\* handleWarningConfirm
NavAfterConfirm(n) ==
    IF n.pendingRoute # NoRoute
    THEN [Pushed(n, n.pendingRoute) EXCEPT !.pendingRoute = NoRoute,
                                          !.showWarning = FALSE]
    ELSE [n EXCEPT !.showWarning = FALSE]

\* handleWarningCancel
NavAfterCancel(n) == [n EXCEPT !.pendingRoute = NoRoute, !.showWarning = FALSE]

\* What a step of Navigation leaves alone.
NavFrame ==
    UNCHANGED <<server, reqs, resps, mount, gamePhase, answerState, filters,
                pendingFilters, showFilterWarning, completeTimer, card,
                nextTimers, altFilters, ahead, retryGid, fault>>

\* A tab is clicked.
HandleTabClick(path) ==
    /\ nav' = NavAfterTabClick(nav, path)
    /\ roundState' = PushedRoundState(nav, NavAfterTabClick(nav, path).pathname)
    /\ NavFrame

\* The modal's Leave button.
HandleWarningConfirm ==
    /\ nav.showWarning
    /\ nav' = NavAfterConfirm(nav)
    /\ roundState' = PushedRoundState(nav, NavAfterConfirm(nav).pathname)
    /\ NavFrame

\* The modal's Stay button.
HandleWarningCancel ==
    /\ nav.showWarning
    /\ nav' = NavAfterCancel(nav)
    /\ UNCHANGED roundState
    /\ NavFrame

\* The 'Active round' indicator shown off the practice page.
ActiveRoundIndicator ==
    /\ nav.appState.hasActiveRound
    /\ nav.pathname # "/practice"
    /\ nav' = Pushed(nav, "/practice")
    /\ roundState' = PushedRoundState(nav, "/practice")
    /\ NavFrame

NextNavigation ==
    \/ \E rs \in NavRoundStates : FlashcardGameRenders(rs)
    \/ SyncAppState
    \/ \E path \in Tabs : HandleTabClick(path)
    \/ HandleWarningConfirm
    \/ HandleWarningCancel
    \/ ActiveRoundIndicator

SpecNavigation == InitNavigation /\ [][NextNavigation]_vars

\* C32: a click on another tab while hasActiveRound holds on /practice keeps
\* the route and holds the tab's path as pending with the warning up; any
\* other click navigates to the tab's path at once; Stay keeps the route and
\* clears the pending route; Leave navigates to exactly the pending route;
\* and the warning is up only while a pending route is held.
LeaveOnlyWhenConfirmed ==
    /\ [](nav.showWarning => nav.pendingRoute # NoRoute)
    /\ [][/\ \A path \in Tabs :
               HandleTabClick(path) =>
                  IF /\ nav.appState.hasActiveRound
                     /\ nav.pathname = "/practice"
                     /\ path # "/practice"
                  THEN /\ nav'.pathname = nav.pathname
                       /\ nav'.pendingRoute = path
                       /\ nav'.showWarning
                  ELSE nav'.pathname = path
          /\ HandleWarningCancel =>
                /\ nav'.pathname = nav.pathname
                /\ nav'.pendingRoute = NoRoute
                /\ ~nav'.showWarning
          /\ HandleWarningConfirm =>
                /\ nav'.pathname = nav.pendingRoute
                /\ nav'.pendingRoute = NoRoute
                /\ ~nav'.showWarning]_vars

\* The History tab was clicked on /practice during an active round: the
\* warning is up, the route is still /practice and /history is pending.
LeaveHeldForConfirmation ==
    /\ nav.pathname = "/practice"
    /\ nav.appState.hasActiveRound
    /\ nav.showWarning
    /\ nav.pendingRoute = "/history"

\* C33: a submit of an input that is empty once trimmed leaves the round
\* state with its guesses and score, the card with its retry state, the answer
\* state, the game phase and the store as they are, and sends no request.
BlankSubmitIgnored ==
    [][\A a \in Inputs \cup {<<>>, <<" ">>, <<" ", " ">>} :
          (Trim(a) = <<>> /\ HandleSubmit(a))
             => UNCHANGED <<roundState, card, answerState, reqs, retryGid,
                            server, gamePhase>>]_vars

\* The second card after the first was skipped, the skip still in flight, and
\* one more learner action counted since: only a blank submit leaves the card,
\* the round state and the requests like this.
BlankSubmittedAfterSkip ==
    /\ CardShown(gamePhase, roundState)
    /\ roundState.currentGuessIndex = 1
    /\ roundState.score.total = 0
    /\ card = InitCard
    /\ answerState = "unanswered"
    /\ Len(reqs) = 1
    /\ resps = {}
    /\ nextTimers = 0
    /\ ahead = 2

\* ---------------------------------------------------------------------------
\* lib/appState's getOverlapHighlight, applied to every pair of texts of at
\* most MaxOverlapLen code units and every minPrefix up to MaxMinPrefix.  A
\* call waits in reqs and its answer is put in resps.
MaxOverlapLen == 3
MaxMinPrefix == 3
CorrectAlphabet == {"a", "A", " ", DottedI}
UserAlphabet == {"a", "A", " ", "i", DotAbove}
\* A text over an alphabet, the empty one, or null (undefined goes the same way).
TextsOver(alphabet) ==
    {<<>>, Null} \cup UNION {[1..n -> alphabet] : n \in 1..MaxOverlapLen}

\* (raw ?? '').trim()
Trimmed(raw) == Trim(IF raw = Null THEN <<>> ELSE raw)
MathMin(x, y) == IF x < y THEN x ELSE y
\* String.prototype.slice(start, end), 0 <= start <= end; slice(start) is
\* slice(start, length).
Slice(s, start, end) == SubSeq(s, MathMin(start, Len(s)) + 1, MathMin(end, Len(s)))
\* while (i < max && a[i] === b[i]) i++, from i on.
RECURSIVE CommonPrefixLength(_, _, _)
CommonPrefixLength(a, b, i) ==
    IF i < MathMin(Len(a), Len(b)) /\ a[i + 1] = b[i + 1]
    THEN CommonPrefixLength(a, b, i + 1)
    ELSE i

\* The value returned: null is the empty sequence, an OverlapResult a sequence
\* of one record.
GetOverlapHighlight(correctRaw, userRaw, minPrefix) ==
    LET correct == Trimmed(correctRaw)
        user == Trimmed(userRaw)
        a == ToLowerCase(correct)
        b == ToLowerCase(user)
        i == CommonPrefixLength(a, b, 0)
    IN IF correct = <<>> \/ user = <<>> THEN <<>>
       ELSE IF i >= minPrefix
            THEN <<[prefix |-> Slice(correct, 0, i),
                    remainder |-> Slice(correct, i, Len(correct)),
                    length |-> i]>>
            ELSE <<>>

InitOverlap ==
    /\ rounds = <<>>
    /\ sguesses = <<>>
    /\ \E correctRaw \in TextsOver(CorrectAlphabet), userRaw \in TextsOver(UserAlphabet),
          minPrefix \in 0..MaxMinPrefix :
          reqs = <<[correctRaw |-> correctRaw, userRaw |-> userRaw,
                    minPrefix |-> minPrefix]>>
    /\ resps = {}
    /\ mount = 1
    /\ gamePhase = "loading"
    /\ roundState = InitRoundState
    /\ answerState = "unanswered"
    /\ filters = DefaultFilters
    /\ pendingFilters = NoFilters
    /\ showFilterWarning = FALSE
    /\ completeTimer = FALSE
    /\ card = InitCard
    /\ retryGid = NoGuess
    /\ fault = "none"
    /\ ahead = 0
    /\ nextTimers = 0
    /\ nav = InitNav
    /\ altFilters = DefaultFilters

\* The call returns.
OverlapReturns ==
    /\ reqs # <<>>
    /\ resps' = {[call |-> reqs[1],
                  result |-> GetOverlapHighlight(reqs[1].correctRaw, reqs[1].userRaw,
                                                 reqs[1].minPrefix)]}
    /\ reqs' = <<>>
    /\ UNCHANGED <<server, client, altFilters, ahead, retryGid, fault>>

SpecOverlap == InitOverlap /\ [][OverlapReturns]_vars

\* Whether the first k code units of two texts are equal up to case, and the
\* longest such k.
SamePrefix(s, t, k) ==
    /\ k <= Len(s)
    /\ k <= Len(t)
    /\ ToLowerCase(SubSeq(s, 1, k)) = ToLowerCase(SubSeq(t, 1, k))
LongestCommonPrefix(s, t) ==
    CHOOSE k \in 0..MathMin(Len(s), Len(t)) :
       /\ SamePrefix(s, t, k)
       /\ \A m \in 0..MathMin(Len(s), Len(t)) : SamePrefix(s, t, m) => m <= k

\* C34: the answer to a call is null when either trimmed text is empty or
\* their longest common prefix up to case is shorter than minPrefix; otherwise
\* its prefix is that longest common prefix as the trimmed correct text has
\* it, prefix and remainder together are the trimmed correct text, and its
\* length is the length of the prefix.
OverlapIsLongestCommonPrefix ==
    \A r \in resps :
       LET correct == Trimmed(r.call.correctRaw)
           user == Trimmed(r.call.userRaw)
           longest == LongestCommonPrefix(correct, user)
       IN IF correct = <<>> \/ user = <<>> \/ longest < r.call.minPrefix
          THEN r.result = <<>>
          ELSE /\ r.result # <<>>
               /\ r.result[1].prefix = SubSeq(correct, 1, longest)
               /\ r.result[1].prefix \o r.result[1].remainder = correct
               /\ r.result[1].length = Len(r.result[1].prefix)
====
